---- MODULE Spec2Model ----
(***************************************************************************)
(* PyPIC (calroc/pypic): the 12F675 programmer of trunk/sim.py, run under  *)
(* the MyHDL discrete-event scheduler.                                     *)
(*                                                                         *)
(* A Signal has a current value (val) and a pending next value (nxt).  A   *)
(* generator writes nxt only; Update commits nxt to val and wakes the      *)
(* generators that wait on the edges this produces (one delta cycle).      *)
(* When nothing is runnable and nothing is pending, time advances and      *)
(* ClockDriver toggles the clock.                                          *)
(*                                                                         *)
(* The program's generators form one call chain (stack): `yield g` pushes  *)
(* the generator g, which starts in the same delta cycle, and a generator  *)
(* that ends hands control back to its caller in the same delta cycle.     *)
(* The only fork is metaD's join(blocks, state_change): the chain goes on  *)
(* with blocks, and state_change runs beside it as the process sc.         *)
(***************************************************************************)
EXTENDS Integers, Sequences, FiniteSets, TLC

VARIABLES
    val,        \* Signal.val of every signal of main()
    nxt,        \* Signal.next of every signal of main()
    stack,      \* the chain of suspended generators of the program, innermost last
    mwait,      \* what the innermost generator waits for ("" = runnable)
    sc,         \* metaD's state_change generator: [st, label]
    link,       \* StrobeClockLink's clock_link generator: [at, run]
    res,        \* LowerController.res (the bits of the last readBits)
    output,     \* the `output` list of the running block
    attrs,      \* the attributes OSCCAL, ID, BG of the Programmer (<<>> = not set)
    exc,        \* the exception that ended Simulation.run ("" = none)
    issued,     \* history: the labels of the verbs called so far, in call order
    chipOut,    \* environment: the 16 bits the chip shifts out during the read
    script,     \* the top-level calls the simulation was built to run
    arg,        \* the data word handed to programCycle / the verbs of the script
    argw,       \* the declared width of that word (an intbv)
    edges,      \* history: the clock rising edges since the start() or
                \* shutdown() generator that ran last was first run
    rticks,     \* history: the clock rising edges since the rest() generator
                \* that ran last was first run
    falls,      \* history: the strobe falling edges since the readBits()
                \* generator on top of the stack was called
    intr,       \* environment: a generator beside the program that may write
                \* state.next once ("idle" = there is none)
    wrote       \* history: the writes <<generator, signal, value>> to a
                \* Signal.next made in the current delta cycle

vars == <<val, nxt, stack, mwait, sc, link, res, output, attrs, exc, issued,
          chipOut, script, arg, argw, edges, rticks, intr, falls, wrote>>

(***************************************************************************)
(* Bounds of the model.                                                    *)
(***************************************************************************)
\* the chip answers a read with one of the words 0..MaxChipWord
MaxChipWord == 1
\* the caller passes one of the data words 0..MaxData or 16383
MaxData == 1
\* the caller passes rest one of the cycle counts -1..MaxRest
MaxRest == 3

(***************************************************************************)
(* Constants of the program.                                               *)
(***************************************************************************)
OSCCAL_ADDRESS == 3

LOW_LEVEL == {"Tx", "Rx", "REST"}

MID_LEVEL == {"naught", "LC", "LP", "LD", "Incr", "EOP", "RP", "RD", "BP", "EP", "ED"}

\* bit k of the natural number v
Bit(v, k) == (v \div (2 ^ k)) % 2 = 1

\* intbv(v)[w:] : a value with a declared width; max is 2^w
intbv(v, w) == [v |-> v, w |-> w]

imax(b) == 2 ^ b.w

\* _command: the template is MSB first; position i from the right sets bit i
RECURSIVE commandBits(_, _)
commandBits(pattern, i) ==
    IF i = Len(pattern) THEN 0
    ELSE (IF pattern[Len(pattern) - i] = "1" THEN 2 ^ i ELSE 0)
         + commandBits(pattern, i + 1)

\* a _command that sets the bit of every X as well
command_XasOne(pattern) ==
    intbv(commandBits(pattern, 0)
          + (IF pattern[1] = "X" THEN 32 ELSE 0)
          + (IF pattern[2] = "X" THEN 16 ELSE 0), 6)

command(pattern) == intbv(commandBits(pattern, 0), 6)

LoadConfiguration == command(<<"X", "X", "0", "0", "0", "0">>)
LoadDataforProgramMemory == command(<<"X", "X", "0", "0", "1", "0">>)
IncrementAddress == command(<<"X", "X", "0", "1", "1", "0">>)
EndProgramming == command(<<"0", "0", "1", "0", "1", "0">>)
LoadDataforDataMemory == command(<<"X", "X", "0", "0", "1", "1">>)
ReadDatafromProgramMemory == command(<<"X", "X", "0", "1", "0", "0">>)
ReadDatafromDataMemory == command(<<"X", "X", "0", "1", "0", "1">>)
BeginProgrammingInternallyTimed == command(<<"0", "0", "1", "0", "0", "0">>)
BeginProgrammingExternallyTimed == command(<<"0", "1", "1", "0", "0", "0">>)
BulkEraseProgramMemory == command(<<"X", "X", "1", "0", "0", "1">>)
BulkEraseDataMemory == command(<<"X", "X", "1", "0", "1", "1">>)

(***************************************************************************)
(* The environment: what the chip may shift out, what a caller may pass.   *)
(***************************************************************************)
\* no chip on the data line: _read returns what the programmer itself drove
NoChip == 0 - 1

ChipWords == 0 .. MaxChipWord

\* a well-framed answer is the word between a 0 start bit and a 0 stop bit;
\* 1 and 32768 are answers with a bad start bit and a bad stop bit
ChipFrames == {2 * w : w \in ChipWords} \cup {1, 32768}

DataWords == (0 .. MaxData) \cup {16383}

(***************************************************************************)
(* Generator frames.                                                       *)
(***************************************************************************)
\* a generator that has not started: f names its function, v and w are its
\* two integer locals, l its list local
F(f, v, w) == [f |-> f, pc |-> 0, v |-> v, w |-> w, l |-> <<>>]

\* a call that raised instead of returning a generator
Raised(e) == [f |-> "raise", pc |-> 0, v |-> 0, w |-> 0, l |-> <<>>, e |-> e]

Top == stack[Len(stack)]

\* the call chain with the innermost generator moved to p
Goto(p) == [stack EXCEPT ![Len(stack)].pc = p]

\* the same, with its local v set to n
GotoV(p, n) == [stack EXCEPT ![Len(stack)].pc = p, ![Len(stack)].v = n]

\* the same, with its local w set to n
GotoW(p, n) == [stack EXCEPT ![Len(stack)].pc = p, ![Len(stack)].w = n]

Ret(stk) == SubSeq(stk, 1, Len(stk) - 1)

\* a run that goes on after an exception
alive_afterError == TRUE

\* no exception has left a generator: Simulation.run() is still running
alive == exc = ""

\* the innermost generator is f and the scheduler is running it
Running(f) == alive /\ mwait = "" /\ stack # <<>> /\ Top.f = f

NoneReady == mwait # "" /\ sc.st \notin {"start", "run"} /\ ~link.run

Posedge(s) == ~val[s] /\ nxt[s]

Negedge(s) == val[s] /\ ~nxt[s]

Edge(e) ==
    CASE e = "clock.posedge" -> Posedge("clock")
      [] e = "clock.negedge" -> Negedge("clock")
      [] e = "STROBE_BIT.posedge" -> Posedge("STROBE_BIT")
      [] e = "STROBE_BIT.negedge" -> Negedge("STROBE_BIT")
      [] OTHER -> FALSE

\* the generator ends: its caller goes on in the same delta cycle
Return ==
    /\ stack' = Ret(stack)
    /\ mwait' = IF Len(stack) = 1 THEN "end" ELSE ""

\* `yield <edge>`, to go on at p
Await(e, p) ==
    /\ stack' = Goto(p)
    /\ mwait' = e

\* `yield <generator>`: k is the call chain with the caller moved to where it
\* goes on; a call that raised ends the simulation
Yield(g, k) ==
    IF g.f = "raise"
    THEN /\ exc' = g.e
         /\ UNCHANGED <<stack, mwait>>
    ELSE /\ stack' = Append(k, g)
         /\ UNCHANGED <<mwait, exc>>

(***************************************************************************)
(* Initial state: main() has built the signals and the Programmer, and     *)
(* the simulation holds ClockDriver, clock_link and one top-level block.   *)
(***************************************************************************)
Scripts ==
    { <<"Program">>,
      <<"cleanDevice">>,
      <<"readOSCCAL", "bulkEraseDevice">>,
      <<"readIDAndBandGap", "bulkEraseDevice">>,
      <<"bulkEraseDevice">>,
      <<"start", "programCycle">>,
      <<"start", "shutdown">>,
      <<"start", "LoadData">>,
      <<"start", "EOP">>,
      <<"start", "ReadData">>,
      <<"start", "sendCommand">>,
      <<"start", "rest">>,
      <<"start", "shutdown", "EOP">> }

\* the cycle counts a caller may pass to rest
RestCycles == (0 - 1) .. MaxRest

\* the 6-bit values a caller may pass as a command
CommandCodes == 0 .. 63

\* the data words and widths a caller may pass to the calls of a script
Args(s) ==
    CASE s = <<"start", "programCycle">> ->
             {a \in DataWords \X {8, 14, 16} : a[1] < 2 ^ a[2]} \cup {<<16384, 16>>}
      [] s = <<"start", "LoadData">> -> {0} \X {8, 14}
      [] s = <<"start", "sendCommand">> -> CommandCodes \X {6, 8}
      [] s = <<"start", "rest">> -> RestCycles \X {14}
      [] OTHER -> {<<0, 14>>}

Init ==
    /\ val = [clock |-> FALSE, STROBE_BIT |-> FALSE, DATA_BIT |-> FALSE,
              POWER_BIT |-> FALSE, PROGRAM_BIT |-> FALSE,
              strobe_enable |-> FALSE, state |-> "REST", mstate |-> "naught"]
    /\ nxt = val
    /\ script \in Scripts
    /\ \E a \in Args(script) : arg = a[1] /\ argw = a[2]
    /\ stack = IF script = <<"Program">> THEN <<F("Program", 0, 0)>>
               ELSE <<F("Caller", 0, 0)>>
    /\ mwait = ""
    /\ sc = [st |-> "none", label |-> "naught"]
    /\ link = [at |-> "clock.posedge", run |-> FALSE]
    /\ res = <<>>
    /\ output = <<>>
    /\ attrs = [OSCCAL |-> <<>>, ID |-> <<>>, BG |-> <<>>]
    /\ exc = ""
    /\ issued = <<>>
    /\ chipOut = NoChip
    /\ edges = 0
    /\ rticks = 0
    /\ falls = 0
    /\ intr = IF script = <<"start", "rest">> /\ arg >= 1 THEN "armed" ELSE "idle"
    /\ wrote = {}

\* `<signal>.next = <value>` for each signal of upd, by generator who: Signal
\* keeps the last value written in the delta cycle
Drive(who, upd) ==
    /\ nxt' = [s \in DOMAIN nxt |-> IF s \in DOMAIN upd THEN upd[s] ELSE nxt[s]]
    /\ wrote' = wrote \cup {<<who, s, upd[s]>> : s \in DOMAIN upd}

(***************************************************************************)
(* The scheduler (Simulation.run) and the two clock processes.             *)
(***************************************************************************)
\* one delta cycle: every pending next value becomes current, and the
\* generators waiting on an edge this produces become runnable
Update ==
    /\ alive
    /\ NoneReady
    /\ nxt # val
    /\ val' = nxt
    /\ mwait' = IF Edge(mwait) THEN "" ELSE mwait
    /\ sc' = IF sc.st = "clock.posedge" /\ Posedge("clock")
             THEN [sc EXCEPT !.st = "run"] ELSE sc
    /\ link' = IF Edge(link.at) THEN [link EXCEPT !.run = TRUE] ELSE link
    /\ edges' = IF Posedge("clock") /\ stack # <<>> /\ Top.f \in {"start", "shutdown"}
                THEN edges + 1 ELSE edges
    /\ rticks' = IF Posedge("clock") /\ stack # <<>> /\ Top.f = "rest"
                 THEN rticks + 1 ELSE rticks
    /\ falls' = IF Negedge("STROBE_BIT") /\ stack # <<>> /\ Top.f = "readBits"
                THEN falls + 1 ELSE falls
    /\ UNCHANGED intr
    /\ wrote' = {}
    /\ UNCHANGED <<nxt, stack, res, output, attrs, exc, issued, chipOut, script, arg, argw>>

\* ClockDriver.driveClk: nothing is runnable or pending, so time advances by
\* delay(10), a new delta cycle begins and the clock toggles
driveClk ==
    /\ alive
    /\ NoneReady
    /\ nxt = val
    /\ nxt' = [nxt EXCEPT !.clock = ~val.clock]
    /\ wrote' = {<<"driveClk", "clock", ~val.clock>>}
    /\ UNCHANGED <<val, stack, mwait, sc, link, res, output, attrs, exc, issued,
                   chipOut, script, arg, argw, edges, rticks, intr, falls>>

\* a clock_link that raises the strobe whether strobe_enable is set or not
clock_link_alwaysStrobe ==
    /\ alive
    /\ link.run
    /\ IF link.at = "clock.posedge"
       THEN /\ Drive("clock_link", [STROBE_BIT |-> TRUE])
            /\ link' = [at |-> "clock.negedge", run |-> FALSE]
       ELSE /\ Drive("clock_link", [STROBE_BIT |-> FALSE])
            /\ link' = [at |-> "clock.posedge", run |-> FALSE]
    /\ UNCHANGED <<val, stack, mwait, sc, res, output, attrs, exc, issued,
                   chipOut, script, arg, argw, edges, rticks, intr, falls>>

\* StrobeClockLink.clock_link
clock_link ==
    /\ alive
    /\ link.run
    /\ IF link.at = "clock.posedge"
       THEN /\ Drive("clock_link", [STROBE_BIT |-> val.strobe_enable])
            /\ link' = [at |-> "clock.negedge", run |-> FALSE]
       ELSE /\ Drive("clock_link", [STROBE_BIT |-> FALSE])
            /\ link' = [at |-> "clock.posedge", run |-> FALSE]
    /\ UNCHANGED <<val, stack, mwait, sc, res, output, attrs, exc, issued,
                   chipOut, script, arg, argw, edges, rticks, intr, falls>>

(***************************************************************************)
(* LowerController: the bit transport.                                     *)
(***************************************************************************)
\* LowerController._read: the data line, which the chip drives during a read
read(k) == IF chipOut = NoChip THEN val.DATA_BIT ELSE Bit(chipOut, k)

\* element k of C = reversed(list(bits)): the bits of v from the least
\* significant one
C(v, k) == Bit(v, k)

\* a sendBits that iterates list(bits) as it is, most significant bit first
sendBits_notReversed ==
    /\ Running("sendBits")
    /\ IF Top.pc = 0
       THEN /\ Await("STROBE_BIT.posedge", 1)
            /\ UNCHANGED <<nxt, wrote>>
       ELSE /\ Drive("sendBits",
                  IF Top.pc = 1
                  THEN [state |-> "Tx", DATA_BIT |-> Bit(Top.v, Top.w - Top.pc)]
                  ELSE [DATA_BIT |-> Bit(Top.v, Top.w - Top.pc)])
            /\ IF Top.pc < Top.w
               THEN /\ stack' = [stack EXCEPT
                                   ![Len(stack)].pc = Top.pc + 1,
                                   ![Len(stack)].l = Append(@, Bit(Top.v, Top.w - Top.pc))]
                    /\ mwait' = "STROBE_BIT.posedge"
               ELSE Return
    /\ UNCHANGED <<val, sc, link, res, output, attrs, exc, issued, chipOut,
                   script, arg, argw, edges, rticks, intr, falls>>

\* sendBits(bits): v is the value of bits, w its width, pc the number of
\* strobe rising edges it has asked for, l the part of C it has consumed
sendBits ==
    /\ Running("sendBits")
    /\ IF Top.pc = 0
       THEN /\ Await("STROBE_BIT.posedge", 1)
            /\ UNCHANGED <<nxt, wrote>>
       ELSE /\ Drive("sendBits",
                  IF Top.pc = 1
                  THEN [state |-> "Tx", DATA_BIT |-> C(Top.v, Top.pc - 1)]
                  ELSE [DATA_BIT |-> C(Top.v, Top.pc - 1)])
            /\ IF Top.pc < Top.w
               THEN /\ stack' = [stack EXCEPT
                                   ![Len(stack)].pc = Top.pc + 1,
                                   ![Len(stack)].l = Append(@, C(Top.v, Top.pc - 1))]
                    /\ mwait' = "STROBE_BIT.posedge"
               ELSE Return
    /\ UNCHANGED <<val, sc, link, res, output, attrs, exc, issued, chipOut,
                   script, arg, argw, edges, rticks, intr, falls>>

\* a readBits without the wait for a strobe rising edge
readBits_noPosedge ==
    /\ Running("readBits")
    /\ CASE Top.pc \in {0, 1} ->
              /\ Drive("readBits", [state |-> "Rx"])
              /\ \E c \in ChipFrames \cup {NoChip} : chipOut' = c
              /\ IF Top.v > 0
                 THEN /\ Await("STROBE_BIT.negedge", 2)
                      /\ UNCHANGED res
                 ELSE /\ res' = <<>>
                      /\ Return
         [] OTHER ->
              LET bit == read(Len(Top.l))
                  l == Append(Top.l, bit)
              IN  /\ Drive("readBits", [DATA_BIT |-> bit])
                  /\ IF Len(l) < Top.v
                     THEN /\ stack' = [stack EXCEPT ![Len(stack)].l = l]
                          /\ mwait' = "STROBE_BIT.negedge"
                          /\ UNCHANGED <<res, chipOut>>
                     ELSE /\ res' = l
                          /\ chipOut' = NoChip
                          /\ Return
    /\ UNCHANGED <<val, sc, link, output, attrs, exc, issued, script, arg, argw, edges, rticks, intr>>
    /\ falls' = IF Top.pc = 0 THEN 0 ELSE falls

\* readBits(number_of_bits): v is number_of_bits, l the local list res.  The
\* chip picks its answer when the read begins and leaves the data line when
\* the last bit is taken
readBits ==
    /\ Running("readBits")
    /\ CASE Top.pc = 0 ->
              /\ Await("STROBE_BIT.posedge", 1)
              /\ UNCHANGED <<nxt, wrote, res, chipOut>>
         [] Top.pc = 1 ->
              /\ Drive("readBits", [state |-> "Rx"])
              /\ \E c \in ChipFrames \cup {NoChip} : chipOut' = c
              /\ IF Top.v > 0
                 THEN /\ Await("STROBE_BIT.negedge", 2)
                      /\ UNCHANGED res
                 ELSE /\ res' = <<>>
                      /\ Return
         [] OTHER ->
              LET bit == read(Len(Top.l))
                  l == Append(Top.l, bit)
              IN  /\ Drive("readBits", [DATA_BIT |-> bit])
                  /\ IF Len(l) < Top.v
                     THEN /\ stack' = [stack EXCEPT ![Len(stack)].l = l]
                          /\ mwait' = "STROBE_BIT.negedge"
                          /\ UNCHANGED <<res, chipOut>>
                     ELSE /\ res' = l
                          /\ chipOut' = NoChip
                          /\ Return
    /\ UNCHANGED <<val, sc, link, output, attrs, exc, issued, script, arg, argw, edges, rticks, intr>>
    /\ falls' = IF Top.pc = 0 THEN 0 ELSE falls

\* a rest without the `if cycles < 1: return`
rest_noGuard ==
    /\ Running("rest")
    /\ CASE Top.pc = 0 ->
              /\ Drive("rest", [strobe_enable |-> FALSE])
              /\ Await("clock.posedge", 1)
         [] Top.pc = 1 ->
              /\ Drive("rest", [state |-> "REST", DATA_BIT |-> FALSE])
              /\ stack' = [stack EXCEPT ![Len(stack)].pc = 2,
                                        ![Len(stack)].v = @ - 1]
              /\ mwait' = "clock.negedge"
         [] OTHER ->
              LET cycles == IF Top.pc = 3 THEN Top.v - 1 ELSE Top.v
              IN  IF val.state = "REST" /\ cycles # 0
                  THEN /\ stack' = [stack EXCEPT ![Len(stack)].pc = 3,
                                                 ![Len(stack)].v = cycles]
                       /\ mwait' = "clock.posedge"
                       /\ UNCHANGED <<nxt, wrote>>
                  ELSE /\ Drive("rest", [strobe_enable |-> TRUE])
                       /\ Return
    /\ UNCHANGED <<val, sc, link, res, output, attrs, exc, issued, chipOut,
                   script, arg, argw, edges>>
    /\ rticks' = IF Top.pc = 0 THEN 0 ELSE rticks
    /\ UNCHANGED <<intr, falls>>

\* a rest whose loop tests cycles only
rest_noStateCheck ==
    /\ Running("rest")
    /\ CASE Top.pc = 0 ->
              IF Top.v < 1
              THEN /\ Return
                   /\ UNCHANGED <<nxt, wrote>>
              ELSE /\ Drive("rest", [strobe_enable |-> FALSE])
                   /\ Await("clock.posedge", 1)
         [] Top.pc = 1 ->
              /\ Drive("rest", [state |-> "REST", DATA_BIT |-> FALSE])
              /\ stack' = [stack EXCEPT ![Len(stack)].pc = 2,
                                        ![Len(stack)].v = @ - 1]
              /\ mwait' = "clock.negedge"
         [] OTHER ->
              LET cycles == IF Top.pc = 3 THEN Top.v - 1 ELSE Top.v
              IN  IF cycles # 0
                  THEN /\ stack' = [stack EXCEPT ![Len(stack)].pc = 3,
                                                 ![Len(stack)].v = cycles]
                       /\ mwait' = "clock.posedge"
                       /\ UNCHANGED <<nxt, wrote>>
                  ELSE /\ Drive("rest", [strobe_enable |-> TRUE])
                       /\ Return
    /\ UNCHANGED <<val, sc, link, res, output, attrs, exc, issued, chipOut,
                   script, arg, argw, edges>>
    /\ rticks' = IF Top.pc = 0 THEN 0 ELSE rticks
    /\ UNCHANGED <<intr, falls>>

\* rest(cycles): v is the local cycles
rest ==
    /\ Running("rest")
    /\ CASE Top.pc = 0 ->
              IF Top.v < 1
              THEN /\ Return
                   /\ UNCHANGED <<nxt, wrote>>
              ELSE /\ Drive("rest", [strobe_enable |-> FALSE])
                   /\ Await("clock.posedge", 1)
         [] Top.pc = 1 ->
              /\ Drive("rest", [state |-> "REST", DATA_BIT |-> FALSE])
              /\ stack' = [stack EXCEPT ![Len(stack)].pc = 2,
                                        ![Len(stack)].v = @ - 1]
              /\ mwait' = "clock.negedge"
         [] OTHER ->
              LET cycles == IF Top.pc = 3 THEN Top.v - 1 ELSE Top.v
              IN  IF val.state = "REST" /\ cycles # 0
                  THEN /\ stack' = [stack EXCEPT ![Len(stack)].pc = 3,
                                                 ![Len(stack)].v = cycles]
                       /\ mwait' = "clock.posedge"
                       /\ UNCHANGED <<nxt, wrote>>
                  ELSE /\ Drive("rest", [strobe_enable |-> TRUE])
                       /\ Return
    /\ UNCHANGED <<val, sc, link, res, output, attrs, exc, issued, chipOut,
                   script, arg, argw, edges>>
    /\ rticks' = IF Top.pc = 0 THEN 0 ELSE rticks
    /\ UNCHANGED <<intr, falls>>

\* a generator of the environment, concurrent with the program: while rest
\* waits it may set the lowlevel state to Tx, once
interrupter ==
    /\ alive
    /\ intr = "armed"
    /\ stack # <<>> /\ Top.f = "rest" /\ Top.pc >= 1
    /\ mwait # ""
    /\ \A w \in wrote : w[2] # "state"
    /\ Drive("interrupter", [state |-> "Tx"])
    /\ intr' = "done"
    /\ UNCHANGED <<val, stack, mwait, sc, link, res, output, attrs, exc, issued,
                   chipOut, script, arg, argw, edges, rticks, falls>>

(***************************************************************************)
(* ProgrammingCommandTypesMixin: command framing.  The function checks the *)
(* operand widths when it is called and returns its `sender` generator.    *)
(***************************************************************************)
\* everything but the call chain and the exception
frameOnly == <<val, nxt, wrote, sc, link, res, output, attrs, issued, chipOut, script, arg, argw, edges, rticks, intr, falls>>

\* sum(1 << n for n, bit in enumerate(bits) if bit)
RECURSIVE bitsValue(_)
bitsValue(bits) ==
    IF bits = <<>> THEN 0
    ELSE (IF bits[1] THEN 1 ELSE 0) + 2 * bitsValue(Tail(bits))

\* a frame without the shift that makes room for the start bit
frame16_unframed(data) == data.v % 65536

\* (data << 1 | SIXTEEN_BITS)[16:]
frame16(data) == (data.v * 2) % 65536

sendCommandAndData_unchecked(cmd, data) ==
    F("sendCommandAndData", cmd.v, frame16(data))

sendCommandAndData(cmd, data) ==
    IF imax(cmd) = 64 /\ imax(data) = 16384
    THEN F("sendCommandAndData", cmd.v, frame16(data))
    ELSE Raised("AssertionError")

sendCommandAndByteData(cmd, data) ==
    IF imax(cmd) = 64 /\ imax(data) = 256
    THEN F("sendCommandAndByteData", cmd.v, frame16(data))
    ELSE Raised("AssertionError")

sendCommand(cmd) ==
    IF imax(cmd) = 64 THEN F("sendCommand", cmd.v, 0)
    ELSE Raised("AssertionError")

sendCommandAndReadData(cmd) ==
    IF imax(cmd) = 64 THEN F("sendCommandAndReadData", cmd.v, 0)
    ELSE Raised("AssertionError")

sendCommandAndReadByteData(cmd) ==
    IF imax(cmd) = 64 THEN F("sendCommandAndReadByteData", cmd.v, 0)
    ELSE Raised("AssertionError")

Tprog == F("Tprog", 0, 0)

Terase == F("Terase", 0, 0)

\* the sender of sendCommandAndData: v is cmd, w the 16-bit frame
sendCommandAndData_sender ==
    /\ Running("sendCommandAndData")
    /\ CASE Top.pc = 0 -> Yield(F("sendBits", Top.v, 6), Goto(1))
         [] Top.pc = 1 -> Yield(F("sendBits", Top.w, 16), Goto(2))
         [] OTHER -> Return /\ UNCHANGED exc
    /\ UNCHANGED frameOnly

\* the sender of sendCommandAndByteData
sendCommandAndByteData_sender ==
    /\ Running("sendCommandAndByteData")
    /\ CASE Top.pc = 0 -> Yield(F("sendBits", Top.v, 6), Goto(1))
         [] Top.pc = 1 -> Yield(F("sendBits", Top.w, 16), Goto(2))
         [] OTHER -> Return /\ UNCHANGED exc
    /\ UNCHANGED frameOnly

\* the sender of sendCommand
sendCommand_sender ==
    /\ Running("sendCommand")
    /\ IF Top.pc = 0 THEN Yield(F("sendBits", Top.v, 6), Goto(1))
       ELSE Return /\ UNCHANGED exc
    /\ UNCHANGED frameOnly

\* the end of a read sender without the assert on res[0] and res[15]
readFrame_unchecked(width) ==
    /\ output' = Append(output, bitsValue(SubSeq(res, 2, 1 + width)))
    /\ Return
    /\ UNCHANGED exc

\* the end of a read sender: the framing check on res, then output.append(N)
\* with N the value of the bits res[1:1+width]
readFrame(width) ==
    IF res[1] \/ res[16]
    THEN /\ exc' = "AssertionError"
         /\ UNCHANGED <<stack, mwait, output>>
    ELSE /\ output' = Append(output, bitsValue(SubSeq(res, 2, 1 + width)))
         /\ Return
         /\ UNCHANGED exc

\* the sender of sendCommandAndReadData (res[1:-1] is 14 bits)
sendCommandAndReadData_sender ==
    /\ Running("sendCommandAndReadData")
    /\ CASE Top.pc = 0 -> Yield(F("sendBits", Top.v, 6), Goto(1)) /\ UNCHANGED output
         [] Top.pc = 1 -> Yield(F("readBits", 16, 0), Goto(2)) /\ UNCHANGED output
         [] OTHER -> readFrame(14)
    /\ UNCHANGED <<val, nxt, wrote, sc, link, res, attrs, issued, chipOut, script, arg, argw, edges, rticks, intr, falls>>

\* the sender of sendCommandAndReadByteData (res[1:-7] is 8 bits)
sendCommandAndReadByteData_sender ==
    /\ Running("sendCommandAndReadByteData")
    /\ CASE Top.pc = 0 -> Yield(F("sendBits", Top.v, 6), Goto(1)) /\ UNCHANGED output
         [] Top.pc = 1 -> Yield(F("readBits", 16, 0), Goto(2)) /\ UNCHANGED output
         [] OTHER -> readFrame(8)
    /\ UNCHANGED <<val, nxt, wrote, sc, link, res, attrs, issued, chipOut, script, arg, argw, edges, rticks, intr, falls>>

\* a Tprog that rests for two cycles
Tprog_sender_twoCycles ==
    /\ Running("Tprog")
    /\ IF Top.pc = 0 THEN Yield(F("rest", 2, 0), Goto(1))
       ELSE Return /\ UNCHANGED exc
    /\ UNCHANGED frameOnly

\* the sender of Tprog
Tprog_sender ==
    /\ Running("Tprog")
    /\ IF Top.pc = 0 THEN Yield(F("rest", 3, 0), Goto(1))
       ELSE Return /\ UNCHANGED exc
    /\ UNCHANGED frameOnly

\* the sender of Terase
Terase_sender ==
    /\ Running("Terase")
    /\ IF Top.pc = 0 THEN Yield(F("rest", 3, 0), Goto(1))
       ELSE Return /\ UNCHANGED exc
    /\ UNCHANGED frameOnly

(***************************************************************************)
(* metaD and ProgrammingCommandsMixin: the verbs.                          *)
(***************************************************************************)
\* a newf whose caller goes on as soon as one of the two generators ends
newf_noJoin(label, blocks, k) ==
    IF blocks.f = "raise"
    THEN /\ exc' = blocks.e
         /\ UNCHANGED <<stack, mwait, sc, issued>>
    ELSE /\ stack' = k \o <<F("join", 0, 0), blocks>>
         /\ sc' = [st |-> "start", label |-> label]
         /\ issued' = Append(issued, label)
         /\ UNCHANGED <<mwait, exc>>

\* metaD(label)(func): `yield self.<verb>(...)` in a block; k is the call
\* chain with the block moved to where it goes on.  func is called first
\* (blocks); then state_change is created and the block waits on
\* join(blocks, state_change)
newf(label, blocks, k) ==
    IF blocks.f = "raise"
    THEN /\ exc' = blocks.e
         /\ UNCHANGED <<stack, mwait, sc, issued>>
    ELSE /\ stack' = k \o <<F("join", 0, 1), blocks>>
         /\ sc' = [st |-> "start", label |-> label]
         /\ issued' = Append(issued, label)
         /\ UNCHANGED <<mwait, exc>>

\* the index of the waiting join in the call chain
JoinAt == CHOOSE i \in 1 .. Len(stack) : stack[i].f = "join"

\* the block that waits on join(...): it is called back once per child that
\* ends, and goes on at the last one (w is the waiter's semaphore)
join ==
    /\ Running("join")
    /\ IF Top.w > 0
       THEN /\ stack' = [stack EXCEPT ![Len(stack)].w = @ - 1]
            /\ mwait' = "join"
       ELSE Return
    /\ UNCHANGED <<val, nxt, wrote, sc, link, res, output, attrs, exc, issued,
                   chipOut, script, arg, argw, edges, rticks, intr, falls>>

\* a state_change that ends at its clock edge without writing the label
state_change_noWrite ==
    /\ alive
    /\ \/ /\ sc.st = "start"
          /\ sc' = [sc EXCEPT !.st = "clock.posedge"]
          /\ UNCHANGED <<nxt, wrote, stack, mwait>>
       \/ /\ sc.st = "run"
          /\ UNCHANGED <<nxt, wrote>>
          /\ sc' = [sc EXCEPT !.st = "done"]
          /\ IF stack[JoinAt].w > 0
             THEN /\ stack' = [stack EXCEPT ![JoinAt].w = @ - 1]
                  /\ UNCHANGED mwait
             ELSE /\ mwait' = ""
                  /\ UNCHANGED stack
    /\ UNCHANGED <<val, link, res, output, attrs, exc, issued, chipOut, script, arg, argw, edges, rticks, intr, falls>>

\* metaD's state_change generator
state_change ==
    /\ alive
    /\ \/ /\ sc.st = "start"
          /\ sc' = [sc EXCEPT !.st = "clock.posedge"]
          /\ UNCHANGED <<nxt, wrote, stack, mwait>>
       \/ /\ sc.st = "run"
          /\ Drive("state_change", [mstate |-> sc.label])
          /\ sc' = [sc EXCEPT !.st = "done"]
          /\ IF stack[JoinAt].w > 0
             THEN /\ stack' = [stack EXCEPT ![JoinAt].w = @ - 1]
                  /\ UNCHANGED mwait
             ELSE /\ mwait' = ""
                  /\ UNCHANGED stack
    /\ UNCHANGED <<val, link, res, output, attrs, exc, issued, chipOut, script, arg, argw, edges, rticks, intr, falls>>

LoadConf(data, k) == newf("LC", sendCommandAndData(LoadConfiguration, data), k)

\* a LoadProg that sends the Load Configuration command
LoadProg_asLoadConf(data, k) == newf("LC", sendCommandAndData(LoadConfiguration, data), k)

LoadProg(data, k) == newf("LP", sendCommandAndData(LoadDataforProgramMemory, data), k)

LoadData(data, k) == newf("LD", sendCommandAndByteData(LoadDataforDataMemory, data), k)

IncrAddr(k) == newf("Incr", sendCommand(IncrementAddress), k)

EOP(k) == newf("EOP", sendCommand(EndProgramming), k)

ReadProg(k) == newf("RP", sendCommandAndReadData(ReadDatafromProgramMemory), k)

ReadData(k) == newf("RD", sendCommandAndReadByteData(ReadDatafromDataMemory), k)

BeginProg(k) == newf("BP", F("beginprog", 0, 0), k)

EraseProg(k) == newf("EP", F("eraseprog", 0, 0), k)

EraseData(k) == newf("ED", F("erasedata", 0, 0), k)

\* BeginProg's generator
beginprog ==
    /\ Running("beginprog")
    /\ CASE Top.pc = 0 -> Yield(sendCommand(BeginProgrammingInternallyTimed), Goto(1))
         [] Top.pc = 1 -> Yield(Tprog, Goto(2))
         [] OTHER -> Return /\ UNCHANGED exc
    /\ UNCHANGED frameOnly

\* EraseProg's generator
eraseprog ==
    /\ Running("eraseprog")
    /\ CASE Top.pc = 0 -> Yield(sendCommand(BulkEraseProgramMemory), Goto(1))
         [] Top.pc = 1 -> Yield(Terase, Goto(2))
         [] OTHER -> Return /\ UNCHANGED exc
    /\ UNCHANGED frameOnly

\* EraseData's generator
erasedata ==
    /\ Running("erasedata")
    /\ CASE Top.pc = 0 -> Yield(sendCommand(BulkEraseDataMemory), Goto(1))
         [] Top.pc = 1 -> Yield(Terase, Goto(2))
         [] OTHER -> Return /\ UNCHANGED exc
    /\ UNCHANGED frameOnly

(***************************************************************************)
(* MetaCommands: the device sequences.                                     *)
(***************************************************************************)
\* a start that turns the power on before it enters program mode
start_powerFirst ==
    /\ Running("start")
    /\ CASE Top.pc = 0 ->
              /\ Drive("start", [STROBE_BIT |-> FALSE, DATA_BIT |-> FALSE, POWER_BIT |-> FALSE, PROGRAM_BIT |-> FALSE])
              /\ Await("clock.posedge", 1)
         [] Top.pc = 1 ->
              /\ Drive("start", [POWER_BIT |-> TRUE, state |-> "REST", mstate |-> "naught"])
              /\ Await("clock.posedge", 2)
         [] Top.pc = 2 ->
              /\ Drive("start", [PROGRAM_BIT |-> TRUE])
              /\ Await("clock.posedge", 3)
         [] OTHER ->
              /\ Drive("start", [strobe_enable |-> TRUE])
              /\ Return
    /\ edges' = IF Top.pc = 0 THEN 0 ELSE edges
    /\ UNCHANGED <<rticks, intr, falls>>
    /\ UNCHANGED <<val, sc, link, res, output, attrs, exc, issued, chipOut,
                   script, arg, argw>>

\* start's generator FireItUp
start ==
    /\ Running("start")
    /\ CASE Top.pc = 0 ->
              /\ Drive("start", [STROBE_BIT |-> FALSE, DATA_BIT |-> FALSE, POWER_BIT |-> FALSE, PROGRAM_BIT |-> FALSE])
              /\ Await("clock.posedge", 1)
         [] Top.pc = 1 ->
              /\ Drive("start", [PROGRAM_BIT |-> TRUE, state |-> "REST", mstate |-> "naught"])
              /\ Await("clock.posedge", 2)
         [] Top.pc = 2 ->
              /\ Drive("start", [POWER_BIT |-> TRUE])
              /\ Await("clock.posedge", 3)
         [] OTHER ->
              /\ Drive("start", [strobe_enable |-> TRUE])
              /\ Return
    /\ edges' = IF Top.pc = 0 THEN 0 ELSE edges
    /\ UNCHANGED <<rticks, intr, falls>>
    /\ UNCHANGED <<val, sc, link, res, output, attrs, exc, issued, chipOut,
                   script, arg, argw>>

\* a shutdown that ends as soon as it has cleared the power
shutdown_noFinalWait ==
    /\ Running("shutdown")
    /\ CASE Top.pc = 0 ->
              /\ Await("clock.posedge", 1)
              /\ UNCHANGED <<nxt, wrote>>
         [] Top.pc = 1 ->
              /\ Drive("shutdown", [state |-> "REST", mstate |-> "naught", DATA_BIT |-> FALSE, strobe_enable |-> FALSE])
              /\ Await("clock.posedge", 2)
         [] Top.pc = 2 ->
              /\ Drive("shutdown", [PROGRAM_BIT |-> FALSE])
              /\ Await("clock.posedge", 3)
         [] OTHER ->
              /\ Drive("shutdown", [POWER_BIT |-> FALSE])
              /\ Return
    /\ edges' = IF Top.pc = 0 THEN 0 ELSE edges
    /\ UNCHANGED <<rticks, intr, falls>>
    /\ UNCHANGED <<val, sc, link, res, output, attrs, exc, issued, chipOut,
                   script, arg, argw>>

\* a shutdown that undoes start in reverse: power first, program mode last
shutdown_mirrored ==
    /\ Running("shutdown")
    /\ CASE Top.pc = 0 ->
              /\ Await("clock.posedge", 1)
              /\ UNCHANGED <<nxt, wrote>>
         [] Top.pc = 1 ->
              /\ Drive("shutdown", [state |-> "REST", mstate |-> "naught", DATA_BIT |-> FALSE, strobe_enable |-> FALSE])
              /\ Await("clock.posedge", 2)
         [] Top.pc = 2 ->
              /\ Drive("shutdown", [POWER_BIT |-> FALSE])
              /\ Await("clock.posedge", 3)
         [] Top.pc = 3 ->
              /\ Drive("shutdown", [PROGRAM_BIT |-> FALSE])
              /\ Await("clock.posedge", 4)
         [] OTHER ->
              /\ Return
              /\ UNCHANGED <<nxt, wrote>>
    /\ edges' = IF Top.pc = 0 THEN 0 ELSE edges
    /\ UNCHANGED <<rticks, intr, falls>>
    /\ UNCHANGED <<val, sc, link, res, output, attrs, exc, issued, chipOut,
                   script, arg, argw>>

\* a shutdown that leaves the midlevel state as it is
shutdown_keepLabel ==
    /\ Running("shutdown")
    /\ CASE Top.pc = 0 ->
              /\ Await("clock.posedge", 1)
              /\ UNCHANGED <<nxt, wrote>>
         [] Top.pc = 1 ->
              /\ Drive("shutdown", [state |-> "REST", DATA_BIT |-> FALSE, strobe_enable |-> FALSE])
              /\ Await("clock.posedge", 2)
         [] Top.pc = 2 ->
              /\ Drive("shutdown", [PROGRAM_BIT |-> FALSE])
              /\ Await("clock.posedge", 3)
         [] Top.pc = 3 ->
              /\ Drive("shutdown", [POWER_BIT |-> FALSE])
              /\ Await("clock.posedge", 4)
         [] OTHER ->
              /\ Return
              /\ UNCHANGED <<nxt, wrote>>
    /\ edges' = IF Top.pc = 0 THEN 0 ELSE edges
    /\ UNCHANGED <<rticks, intr, falls>>
    /\ UNCHANGED <<val, sc, link, res, output, attrs, exc, issued, chipOut,
                   script, arg, argw>>

\* shutdown's generator ShutErDown
shutdown ==
    /\ Running("shutdown")
    /\ CASE Top.pc = 0 ->
              /\ Await("clock.posedge", 1)
              /\ UNCHANGED <<nxt, wrote>>
         [] Top.pc = 1 ->
              /\ Drive("shutdown", [state |-> "REST", mstate |-> "naught", DATA_BIT |-> FALSE, strobe_enable |-> FALSE])
              /\ Await("clock.posedge", 2)
         [] Top.pc = 2 ->
              /\ Drive("shutdown", [PROGRAM_BIT |-> FALSE])
              /\ Await("clock.posedge", 3)
         [] Top.pc = 3 ->
              /\ Drive("shutdown", [POWER_BIT |-> FALSE])
              /\ Await("clock.posedge", 4)
         [] OTHER ->
              /\ Return
              /\ UNCHANGED <<nxt, wrote>>
    /\ edges' = IF Top.pc = 0 THEN 0 ELSE edges
    /\ UNCHANGED <<rticks, intr, falls>>
    /\ UNCHANGED <<val, sc, link, res, output, attrs, exc, issued, chipOut,
                   script, arg, argw>>

\* a reset that starts the device without shutting it down first
reset_noShutdown ==
    /\ Running("reset")
    /\ CASE Top.pc = 0 -> Yield(F("start", 0, 0), Goto(2))
         [] OTHER -> Return /\ UNCHANGED exc
    /\ UNCHANGED frameOnly

\* reset's generator Resetter
reset ==
    /\ Running("reset")
    /\ CASE Top.pc = 0 -> Yield(F("shutdown", 0, 0), Goto(1))
         [] Top.pc = 1 -> Yield(F("start", 0, 0), Goto(2))
         [] OTHER -> Return /\ UNCHANGED exc
    /\ UNCHANGED frameOnly

\* a programCycle that never finds a write faulty
writeFaulty_never(data) == FALSE

\* `output[0] != data`
writeFaulty(data) == output[1] # data

\* programCycle(data): v is the value of data, w its width
programCycle ==
    /\ Running("programCycle")
    /\ CASE Top.pc = 0 ->
              /\ LoadProg(intbv(Top.v, Top.w), Goto(1))
              /\ UNCHANGED output
         [] Top.pc = 1 ->
              /\ BeginProg(Goto(2))
              /\ UNCHANGED output
         [] Top.pc = 2 ->
              /\ output' = <<>>
              /\ ReadProg(Goto(3))
         [] Top.pc = 3 ->
              IF writeFaulty(Top.v)
              THEN /\ exc' = "FaultyWriteError"
                   /\ UNCHANGED <<stack, mwait, sc, issued, output>>
              ELSE /\ IncrAddr(Goto(4))
                   /\ UNCHANGED output
         [] OTHER ->
              /\ Return
              /\ UNCHANGED <<sc, exc, issued, output>>
    /\ UNCHANGED <<val, nxt, wrote, link, res, attrs, chipOut, script, arg, argw, edges, rticks, intr, falls>>

\* a readOSCCAL with the check against RETLW_MASK switched on
readOSCCAL_masked ==
    /\ Running("readOSCCAL")
    /\ CASE Top.pc = 0 ->
              /\ output' = <<>>
              /\ Yield(F("reset", 0, 0), Goto(1))
              /\ UNCHANGED <<sc, issued, attrs>>
         [] Top.pc = 1 ->
              /\ IF Top.v < OSCCAL_ADDRESS
                 THEN IncrAddr(GotoV(1, Top.v + 1))
                 ELSE ReadProg(Goto(2))
              /\ UNCHANGED <<output, attrs>>
         [] OTHER ->
              IF (output[1] \div 1024) % 16 # 13
              THEN /\ exc' = "InvalidOSCCALError"
                   /\ UNCHANGED <<stack, mwait, sc, issued, output, attrs>>
              ELSE /\ attrs' = [attrs EXCEPT !.OSCCAL = <<output[1]>>]
                   /\ Return
                   /\ UNCHANGED <<sc, exc, issued, output>>
    /\ UNCHANGED <<val, nxt, wrote, link, res, chipOut, script, arg, argw, edges, rticks, intr, falls>>

\* readOSCCAL: v counts the turns of the loop
readOSCCAL ==
    /\ Running("readOSCCAL")
    /\ CASE Top.pc = 0 ->
              /\ output' = <<>>
              /\ Yield(F("reset", 0, 0), Goto(1))
              /\ UNCHANGED <<sc, issued, attrs>>
         [] Top.pc = 1 ->
              /\ IF Top.v < OSCCAL_ADDRESS
                 THEN IncrAddr(GotoV(1, Top.v + 1))
                 ELSE ReadProg(Goto(2))
              /\ UNCHANGED <<output, attrs>>
         [] OTHER ->
              /\ attrs' = [attrs EXCEPT !.OSCCAL = <<output[1]>>]
              /\ Return
              /\ UNCHANGED <<sc, exc, issued, output>>
    /\ UNCHANGED <<val, nxt, wrote, link, res, chipOut, script, arg, argw, edges, rticks, intr, falls>>

\* a readIDAndBandGap that skips two reserved words, not three
readIDAndBandGap_skipTwo ==
    /\ Running("readIDAndBandGap")
    /\ CASE Top.pc = 0 ->
              /\ output' = <<>>
              /\ Yield(F("reset", 0, 0), Goto(1))
              /\ UNCHANGED <<sc, issued, attrs>>
         [] Top.pc = 1 ->
              /\ LoadConf(intbv(0, 14), Goto(2))
              /\ UNCHANGED <<output, attrs>>
         [] Top.pc = 2 /\ Top.v < 4 ->
              /\ ReadProg(Goto(3))
              /\ UNCHANGED <<output, attrs>>
         [] Top.pc = 3 ->
              /\ IncrAddr(GotoV(2, Top.v + 1))
              /\ UNCHANGED <<output, attrs>>
         [] Top.pc \in {2, 4} /\ ~(Top.pc = 2 /\ Top.v < 4) ->
              /\ IF Top.w < 2
                 THEN IncrAddr(GotoW(4, Top.w + 1))
                 ELSE ReadProg(Goto(5))
              /\ UNCHANGED <<output, attrs>>
         [] OTHER ->
              /\ attrs' = [attrs EXCEPT !.ID = SubSeq(output, 1, 4),
                                        !.BG = <<output[Len(output)]>>]
              /\ Return
              /\ UNCHANGED <<sc, exc, issued, output>>
    /\ UNCHANGED <<val, nxt, wrote, link, res, chipOut, script, arg, argw, edges, rticks, intr, falls>>

\* readIDAndBandGap: v counts the turns of the first loop, w of the second
readIDAndBandGap ==
    /\ Running("readIDAndBandGap")
    /\ CASE Top.pc = 0 ->
              /\ output' = <<>>
              /\ Yield(F("reset", 0, 0), Goto(1))
              /\ UNCHANGED <<sc, issued, attrs>>
         [] Top.pc = 1 ->
              /\ LoadConf(intbv(0, 14), Goto(2))
              /\ UNCHANGED <<output, attrs>>
         [] Top.pc = 2 /\ Top.v < 4 ->
              /\ ReadProg(Goto(3))
              /\ UNCHANGED <<output, attrs>>
         [] Top.pc = 3 ->
              /\ IncrAddr(GotoV(2, Top.v + 1))
              /\ UNCHANGED <<output, attrs>>
         [] Top.pc \in {2, 4} /\ ~(Top.pc = 2 /\ Top.v < 4) ->
              /\ IF Top.w < 3
                 THEN IncrAddr(GotoW(4, Top.w + 1))
                 ELSE ReadProg(Goto(5))
              /\ UNCHANGED <<output, attrs>>
         [] OTHER ->
              /\ attrs' = [attrs EXCEPT !.ID = SubSeq(output, 1, 4),
                                        !.BG = <<output[Len(output)]>>]
              /\ Return
              /\ UNCHANGED <<sc, exc, issued, output>>
    /\ UNCHANGED <<val, nxt, wrote, link, res, chipOut, script, arg, argw, edges, rticks, intr, falls>>

\* hasattr(self, attr)
hasattr(attr) == attrs[attr] # <<>>

\* a check that goes through the names from the last to the first
RECURSIVE firstMissing_backwards(_)
firstMissing_backwards(names) ==
    IF names = <<>> THEN ""
    ELSE IF ~hasattr(names[Len(names)]) THEN names[Len(names)]
    ELSE firstMissing_backwards(SubSeq(names, 1, Len(names) - 1))

\* the first attribute of the sequence names that is not set, "" if all are
RECURSIVE firstMissing(_)
firstMissing(names) ==
    IF names = <<>> THEN ""
    ELSE IF ~hasattr(names[1]) THEN names[1]
    ELSE firstMissing(Tail(names))

\* Exception('aw %s' % repr(attr))
aw(attr) ==
    CASE attr = "OSCCAL" -> "aw 'OSCCAL'"
      [] attr = "ID" -> "aw 'ID'"
      [] attr = "BG" -> "aw 'BG'"

\* bulkEraseDevice's block
bulkEraseDevice ==
    /\ Running("bulkEraseDevice")
    /\ CASE Top.pc = 0 ->
              LET missing == firstMissing(<<"OSCCAL", "ID", "BG">>)
              IN  IF missing # ""
                  THEN /\ exc' = aw(missing)
                       /\ UNCHANGED <<stack, mwait, sc, issued>>
                  ELSE EraseProg(Goto(1))
         [] Top.pc = 1 -> EraseData(Goto(2))
         [] OTHER ->
              /\ Return
              /\ UNCHANGED <<sc, exc, issued>>
    /\ UNCHANGED <<val, nxt, wrote, link, res, output, attrs, chipOut, script, arg, argw, edges, rticks, intr, falls>>

\* a cleanDevice that erases before it has read the ID words
cleanDevice_eraseEarly ==
    /\ Running("cleanDevice")
    /\ CASE Top.pc = 0 -> Yield(F("readOSCCAL", 0, 0), Goto(1))
         [] Top.pc = 1 -> Yield(F("bulkEraseDevice", 0, 0), Goto(2))
         [] Top.pc = 2 -> Yield(F("readIDAndBandGap", 0, 0), Goto(3))
         [] OTHER -> Return /\ UNCHANGED exc
    /\ UNCHANGED frameOnly

\* cleanDevice's block
cleanDevice ==
    /\ Running("cleanDevice")
    /\ CASE Top.pc = 0 -> Yield(F("readOSCCAL", 0, 0), Goto(1))
         [] Top.pc = 1 -> Yield(F("readIDAndBandGap", 0, 0), Goto(2))
         [] Top.pc = 2 -> Yield(F("bulkEraseDevice", 0, 0), Goto(3))
         [] OTHER -> Return /\ UNCHANGED exc
    /\ UNCHANGED frameOnly

\* a Program that ends without raising StopSimulation
Program_returns ==
    /\ Running("Program")
    /\ CASE Top.pc = 0 -> Yield(F("cleanDevice", 0, 0), Goto(1))
         [] Top.pc = 1 -> Yield(F("shutdown", 0, 0), Goto(2))
         [] OTHER -> Return /\ UNCHANGED exc
    /\ UNCHANGED frameOnly

\* main's generator Program
Program ==
    /\ Running("Program")
    /\ CASE Top.pc = 0 -> Yield(F("cleanDevice", 0, 0), Goto(1))
         [] Top.pc = 1 -> Yield(F("shutdown", 0, 0), Goto(2))
         [] OTHER ->
              /\ exc' = "StopSimulation"
              /\ UNCHANGED <<stack, mwait>>
    /\ UNCHANGED frameOnly

\* a top-level block that runs the calls of script one after another, in
\* the place of Program
Caller ==
    /\ Running("Caller")
    /\ IF Top.pc < Len(script)
       THEN LET op == script[Top.pc + 1]
                k == Goto(Top.pc + 1)
            IN  CASE op = "programCycle" ->
                       /\ Yield(F("programCycle", arg, argw), k)
                       /\ UNCHANGED <<sc, issued, output>>
                  [] op = "LoadData" ->
                       /\ LoadData(intbv(arg, argw), k)
                       /\ UNCHANGED output
                  [] op = "rest" ->
                       /\ Yield(F("rest", arg, 0), k)
                       /\ UNCHANGED <<sc, issued, output>>
                  [] op = "sendCommand" ->
                       /\ Yield(sendCommand(intbv(arg, argw)), k)
                       /\ UNCHANGED <<sc, issued, output>>
                  [] op = "EOP" ->
                       /\ EOP(k)
                       /\ UNCHANGED output
                  [] op = "ReadData" ->
                       /\ output' = <<>>
                       /\ ReadData(k)
                  [] OTHER ->
                       /\ Yield(F(op, 0, 0), k)
                       /\ UNCHANGED <<sc, issued, output>>
       ELSE /\ Return
            /\ UNCHANGED <<sc, exc, issued, output>>
    /\ UNCHANGED <<val, nxt, wrote, link, res, attrs, chipOut, script, arg, argw, edges, rticks, intr, falls>>

Next ==
    \/ Update
    \/ driveClk
    \/ clock_link
    \/ state_change
    \/ join
    \/ sendBits
    \/ readBits
    \/ rest
    \/ interrupter
    \/ sendCommandAndData_sender
    \/ sendCommandAndByteData_sender
    \/ sendCommand_sender
    \/ sendCommandAndReadData_sender
    \/ sendCommandAndReadByteData_sender
    \/ Tprog_sender
    \/ Terase_sender
    \/ beginprog
    \/ eraseprog
    \/ erasedata
    \/ start
    \/ shutdown
    \/ reset
    \/ programCycle
    \/ readOSCCAL
    \/ readIDAndBandGap
    \/ bulkEraseDevice
    \/ cleanDevice
    \/ Program
    \/ Caller

Spec == Init /\ [][Next]_vars

\* Simulation.run goes on while a generator is runnable, a signal update is
\* pending or a delay (ClockDriver's) is scheduled
LiveSpec == Spec /\ WF_vars(Next)

(***************************************************************************)
(* The framing functions over a loopback: the 16 bits that                 *)
(* sendCommandAndData hands to sendBits are put, in the order sendBits     *)
(* takes them from C, into res, and the sender of sendCommandAndReadData   *)
(* goes on from its `res = self.res`.                                      *)
(***************************************************************************)
\* every value of an intbv of 14 bits
Words14 == 0 .. imax(intbv(0, 14)) - 1

LoopInit ==
    /\ val = [clock |-> FALSE, STROBE_BIT |-> FALSE, DATA_BIT |-> FALSE,
              POWER_BIT |-> FALSE, PROGRAM_BIT |-> FALSE,
              strobe_enable |-> FALSE, state |-> "REST", mstate |-> "naught"]
    /\ nxt = val
    /\ script = <<"loopback">>
    /\ arg \in Words14
    /\ argw = 14
    /\ stack = <<[sendCommandAndReadData(ReadDatafromProgramMemory) EXCEPT !.pc = 2]>>
    /\ mwait = "loopback"
    /\ sc = [st |-> "none", label |-> "naught"]
    /\ link = [at |-> "clock.posedge", run |-> FALSE]
    /\ res = <<>>
    /\ output = <<>>
    /\ attrs = [OSCCAL |-> <<>>, ID |-> <<>>, BG |-> <<>>]
    /\ exc = ""
    /\ issued = <<>>
    /\ chipOut = NoChip
    /\ edges = 0
    /\ rticks = 0
    /\ falls = 0
    /\ intr = "idle"
    /\ wrote = {}

\* the next bit of the frame of sendCommandAndData(cmd, arg) is sampled
loopback ==
    /\ alive
    /\ mwait = "loopback"
    /\ LET sender == sendCommandAndData(LoadDataforProgramMemory, intbv(arg, argw))
       IN  res' = Append(res, C(sender.w, Len(res)))
    /\ mwait' = IF Len(res) + 1 = 16 THEN "" ELSE mwait
    /\ UNCHANGED <<val, nxt, wrote, stack, sc, link, output, attrs, exc, issued,
                   chipOut, script, arg, argw, edges, rticks, intr, falls>>

LoopNext == loopback \/ sendCommandAndReadData_sender

LoopSpec == LoopInit /\ [][LoopNext]_vars

(***************************************************************************)
(* Properties.                                                             *)
(***************************************************************************)
Range(q) == {q[i] : i \in 1 .. Len(q)}

IsPrefix(p, q) == Len(p) <= Len(q) /\ SubSeq(q, 1, Len(p)) = p

\* the generators of function f in the call chain
Frames(f) == {i \in 1 .. Len(stack) : stack[i].f = f}

\* how often the verb with this label was called
RECURSIVE Count(_, _)
Count(q, x) ==
    IF q = <<>> THEN 0
    ELSE (IF q[1] = x THEN 1 ELSE 0) + Count(Tail(q), x)

AllCached == attrs.OSCCAL # <<>> /\ attrs.ID # <<>> /\ attrs.BG # <<>>

AwErrors == {"aw 'OSCCAL'", "aw 'ID'", "aw 'BG'"}

OnlyProgramCycle == script = <<"start", "programCycle">>

\* the word ReadProg appended to programCycle's output
ReadBack == output[1]

\* C1: in programCycle(data), a read-back word that differs from data ends
\* the run with FaultyWriteError right after LoadProg, BeginProg and
\* ReadProg, and IncrAddr is never called: once the word is there, the block
\* is either about to compare or has raised
C1_FaultyWriteAborts ==
    OnlyProgramCycle =>
        /\ exc = "FaultyWriteError" =>
               /\ issued = <<"LP", "BP", "RP">>
               /\ Len(output) = 1
               /\ ReadBack # arg
        /\ (Len(output) = 1 /\ ReadBack # arg) =>
               /\ "Incr" \notin Range(issued)
               /\ exc \in {"", "FaultyWriteError"}
               /\ (Len(stack) = 2 /\ exc = "") => (mwait = "" /\ Top.pc = 3)

\* C1 happens: the chip answered data+1 and the run ended with the error
C1_Witness ==
    /\ OnlyProgramCycle
    /\ exc = "FaultyWriteError"
    /\ output = <<arg + 1>>
    /\ issued = <<"LP", "BP", "RP">>

\* C2: in programCycle(data), a read-back word equal to data raises nothing;
\* the verbs are called in the order LoadProg(data), BeginProg, ReadProg,
\* IncrAddr, and when the block has ended exactly these four were called,
\* IncrAddr once
C2_EchoCompletes ==
    OnlyProgramCycle =>
        /\ IsPrefix(issued, <<"LP", "BP", "RP", "Incr">>)
        /\ \A i \in Frames("sendCommandAndData") :
               stack[i].v = 2 /\ stack[i].w = 2 * arg
        /\ (Len(output) = 1 /\ ReadBack = arg) => exc = ""
        /\ mwait = "end" =>
               /\ issued = <<"LP", "BP", "RP", "Incr">>
               /\ Count(issued, "Incr") = 1
               /\ output = <<arg>>
               /\ exc = ""

\* C2 happens: the chip echoed a data word other than 0 and the block ended
C2_Witness ==
    /\ OnlyProgramCycle
    /\ mwait = "end"
    /\ arg = 1
    /\ output = <<1>>

\* the error names the first attribute, in the order OSCCAL, ID, BG, that is
\* not set, and the erase verbs are called only with all three set
C3_Precondition ==
    /\ exc = "aw 'OSCCAL'" => attrs.OSCCAL = <<>>
    /\ exc = "aw 'ID'" => (attrs.OSCCAL # <<>> /\ attrs.ID = <<>>)
    /\ exc = "aw 'BG'" => (attrs.OSCCAL # <<>> /\ attrs.ID # <<>> /\ attrs.BG = <<>>)
    /\ exc \in AwErrors => ("EP" \notin Range(issued) /\ "ED" \notin Range(issued))
    /\ "EP" \in Range(issued) => AllCached
    /\ "ED" \in Range(issued) =>
           (Len(issued) >= 2 /\ SubSeq(issued, Len(issued) - 1, Len(issued)) = <<"EP", "ED">>)
    /\ \A i \in Frames("bulkEraseDevice") : stack[i].pc > 0 => AllCached

\* the step that raises the precondition error writes no signal
C3_NoWrite == (exc = "" /\ exc' \in AwErrors) => (nxt' = nxt /\ val' = val)

\* C3: bulkEraseDevice checks OSCCAL, ID, BG in this order and raises for
\* the first one that is not set, without calling EraseProg or EraseData and
\* without writing a signal; EraseProg and then EraseData are called only
\* with all three set
C3_BulkErasePrecondition == []C3_Precondition /\ [][C3_NoWrite]_vars

\* C3 happens: nothing is cached, and the error names OSCCAL
C3_Witness ==
    /\ script = <<"bulkEraseDevice">>
    /\ exc = "aw 'OSCCAL'"
    /\ attrs.OSCCAL = <<>> /\ attrs.ID = <<>> /\ attrs.BG = <<>>
    /\ issued = <<>>

OnlyReadID == script = <<"readIDAndBandGap", "bulkEraseDevice">>

VerbsOfReadID ==
    <<"LC", "RP", "Incr", "RP", "Incr", "RP", "Incr", "RP", "Incr",
      "Incr", "Incr", "Incr", "RP">>

\* C4: readIDAndBandGap calls, after reset, LoadConf(0), then four times
\* ReadProg and IncrAddr, then three times IncrAddr, then ReadProg, in this
\* order (7 IncrAddr, 5 ReadProg), and caches the first four words read as
\* ID and the last as BG
C4_ReadIDSequence ==
    OnlyReadID =>
        /\ IsPrefix(issued, VerbsOfReadID)
        /\ issued # <<>> => (val.PROGRAM_BIT /\ val.POWER_BIT /\ edges = 3)
        /\ \A i \in Frames("sendCommandAndData") : stack[i].v = 0 /\ stack[i].w = 0
        /\ (attrs.ID # <<>> \/ attrs.BG # <<>>) =>
               /\ issued = VerbsOfReadID
               /\ Count(issued, "Incr") = 7
               /\ Count(issued, "RP") = 5
               /\ Len(output) = 5
               /\ attrs.ID = <<output[1], output[2], output[3], output[4]>>
               /\ attrs.BG = <<output[5]>>
        /\ (Frames("readIDAndBandGap") = {} /\ stack # <<>> /\ stack[1].pc > 0) => attrs.ID # <<>>

\* C4 happens: the chip answered five words, which were cached
C4_Witness ==
    /\ OnlyReadID
    /\ attrs.ID = <<0, 1, 1, 0>>
    /\ attrs.BG = <<1>>
    /\ issued = VerbsOfReadID

OnlyReadOSCCAL == script = <<"readOSCCAL", "bulkEraseDevice">>

\* C5: readOSCCAL calls, after reset, IncrAddr three times and ReadProg
\* once, and nothing else, and caches the word read as OSCCAL whatever the
\* word is: once the word is read nothing but the later bulk erase raises
C5_ReadOSCCALSequence ==
    OnlyReadOSCCAL =>
        /\ IsPrefix(issued, <<"Incr", "Incr", "Incr", "RP">>)
        /\ issued # <<>> => (val.PROGRAM_BIT /\ val.POWER_BIT /\ edges = 3)
        /\ attrs.OSCCAL # <<>> =>
               /\ issued = <<"Incr", "Incr", "Incr", "RP">>
               /\ attrs.OSCCAL = output
               /\ Len(output) = 1
        /\ (Len(output) = 1 /\ exc # "") =>
               (exc = "aw 'ID'" /\ attrs.OSCCAL = output)
        /\ (Frames("readOSCCAL") = {} /\ stack # <<>> /\ stack[1].pc > 0) => attrs.OSCCAL # <<>>

\* C5 happens: a word that the disabled mask check would refuse is cached
C5_Witness ==
    /\ OnlyReadOSCCAL
    /\ attrs.OSCCAL = <<1>>
    /\ issued = <<"Incr", "Incr", "Incr", "RP">>

WholeClean == script \in {<<"Program">>, <<"cleanDevice">>}

\* C6: cleanDevice runs readOSCCAL, readIDAndBandGap and bulkEraseDevice one
\* after another: EraseProg is called only with OSCCAL, ID and BG cached,
\* and the precondition error is never raised
C6_CleanDeviceOrder ==
    WholeClean =>
        /\ exc \notin AwErrors
        /\ Frames("readIDAndBandGap") # {} => attrs.OSCCAL # <<>>
        /\ Frames("bulkEraseDevice") # {} => AllCached
        /\ "EP" \in Range(issued) =>
               /\ AllCached
               /\ IsPrefix(<<"Incr", "Incr", "Incr", "RP">> \o VerbsOfReadID \o <<"EP">>,
                           issued)
        /\ IsPrefix(issued, <<"Incr", "Incr", "Incr", "RP">> \o VerbsOfReadID
                                \o <<"EP", "ED">>)

\* C6 happens: the session has come to the bulk erase
C6_Witness ==
    /\ script = <<"Program">>
    /\ "EP" \in Range(issued)
    /\ attrs.OSCCAL = <<1>>
    /\ \E i \in Frames("sendBits") : stack[i].v = 9 /\ stack[i].pc > 1

InStart == stack # <<>> /\ Top.f = "start"

InShutdown == stack # <<>> /\ Top.f = "shutdown"

\* the innermost generator ends in this step
Returns(f) == stack # <<>> /\ Top.f = f /\ Len(stack') = Len(stack) - 1

\* start between its clock edges: pc is the number of edges it has asked
\* for, edges the number that have come
C7_StartSteps ==
    InStart =>
        /\ Top.pc >= 1 => edges = (IF mwait = "" THEN Top.pc ELSE Top.pc - 1)
        /\ Top.pc = 1 =>
               (~nxt.STROBE_BIT /\ ~nxt.DATA_BIT /\ ~nxt.POWER_BIT /\ ~nxt.PROGRAM_BIT)
        /\ (Top.pc = 1 /\ mwait = "") =>
               (~val.STROBE_BIT /\ ~val.DATA_BIT /\ ~val.POWER_BIT /\ ~val.PROGRAM_BIT)
        /\ Top.pc = 2 =>
               /\ nxt.PROGRAM_BIT /\ nxt.state = "REST" /\ nxt.mstate = "naught"
               /\ ~nxt.POWER_BIT /\ ~nxt.strobe_enable
        /\ Top.pc = 3 =>
               (val.PROGRAM_BIT /\ nxt.POWER_BIT /\ ~nxt.strobe_enable)
        /\ val.POWER_BIT => val.PROGRAM_BIT
        /\ val.strobe_enable => val.POWER_BIT

\* each line is asserted only when the line before it is already high, and
\* start ends by asserting strobe_enable at its third edge
C7_StartOrder ==
    /\ (~val.PROGRAM_BIT /\ val'.PROGRAM_BIT) => (~val.POWER_BIT /\ ~val.strobe_enable)
    /\ (~val.POWER_BIT /\ val'.POWER_BIT) => (val.PROGRAM_BIT /\ ~val.strobe_enable)
    /\ (~val.strobe_enable /\ val'.strobe_enable) => (val.PROGRAM_BIT /\ val.POWER_BIT)
    /\ Returns("start") =>
           (edges = 3 /\ Top.pc = 3 /\ val.POWER_BIT /\ nxt'.strobe_enable)

\* C7: start clears strobe, data, power and program mode; asserts program
\* mode (with state REST and mstate naught) after the first clock rising
\* edge, power after the second and strobe_enable after the third; program
\* mode is high before power rises and power before strobe_enable rises
C7_StartSequence == []C7_StartSteps /\ [][C7_StartOrder]_vars

\* C7 happens: inside the session, start is woken by its third edge with
\* program mode and power high and strobe_enable still low
C7_Witness ==
    /\ script = <<"Program">>
    /\ issued # <<>>
    /\ InStart /\ Top.pc = 3 /\ mwait = ""
    /\ val.PROGRAM_BIT /\ val.POWER_BIT /\ ~val.strobe_enable

\* C8 as the specification words it: shutdown releases the lines in the reverse of the order in
\* which start asserts them, so power is never high with program mode low
C8_MirrorsStart == val.POWER_BIT => val.PROGRAM_BIT

\* C8, amended: strobe_enable (asserted last) is released first, then
\* program mode, then power; inside shutdown program mode is never high
\* with power low, and strobe_enable is high only with both of them high
C8_ReleaseOrder ==
    /\ val.strobe_enable => (val.POWER_BIT /\ val.PROGRAM_BIT)
    /\ InShutdown => (val.PROGRAM_BIT => val.POWER_BIT)
    /\ (InShutdown /\ Top.pc = 3) => ~nxt.PROGRAM_BIT
    /\ (InShutdown /\ Top.pc = 3 /\ "ED" \in Range(issued)) => val.POWER_BIT

\* C8 happens: shutdown has released program mode and power is still high
C8_Witness ==
    /\ InShutdown
    /\ val.POWER_BIT /\ ~val.PROGRAM_BIT /\ ~val.strobe_enable

\* shutdown between its clock edges
C9_ShutdownSteps ==
    InShutdown =>
        /\ Top.pc >= 1 => edges = (IF mwait = "" THEN Top.pc ELSE Top.pc - 1)
        /\ Top.pc = 2 =>
               /\ nxt.state = "REST" /\ nxt.mstate = "naught"
               /\ ~nxt.DATA_BIT /\ ~nxt.strobe_enable
               /\ nxt.PROGRAM_BIT = val.PROGRAM_BIT
               /\ nxt.POWER_BIT = val.POWER_BIT
        /\ Top.pc = 3 =>
               (~nxt.PROGRAM_BIT /\ ~val.strobe_enable /\ nxt.POWER_BIT = val.POWER_BIT)
        /\ Top.pc = 4 =>
               (~nxt.POWER_BIT /\ ~val.PROGRAM_BIT /\ ~val.strobe_enable)

\* shutdown writes nothing before its first edge and ends at its fourth
C9_ShutdownEnds ==
    /\ (InShutdown /\ Top.pc = 0 /\ stack' # stack) => nxt' = nxt
    /\ Returns("shutdown") => (edges = 4 /\ Top.pc = 4 /\ nxt' = nxt)

\* C9: shutdown waits one clock rising edge, then sets state REST and mstate
\* naught and clears the data line and strobe_enable; clears program mode
\* after the second edge and power after the third, and ends only after a
\* fourth
C9_ShutdownSequence == []C9_ShutdownSteps /\ [][C9_ShutdownEnds]_vars

\* C9 happens: the shutdown that ends the session is woken by its fourth edge
C9_Witness ==
    /\ script = <<"Program">>
    /\ "ED" \in Range(issued)
    /\ InShutdown /\ Top.pc = 4 /\ mwait = "" /\ edges = 4
    /\ ~val.POWER_BIT /\ ~val.PROGRAM_BIT

\* the block that called a verb is about to go on
VerbCompletes == Running("join") /\ Top.w = 0

\* C10: a verb is join(blocks, state_change): the caller goes on only when
\* both have ended, so when it goes on mstate is the verb's label, and no
\* state_change is pending when the next verb is called
C10_ForkJoin ==
    /\ Cardinality(Frames("join")) <= 1
    /\ VerbCompletes =>
           (sc.st = "done" /\ val.mstate = sc.label /\ nxt.mstate = sc.label)
    /\ Frames("join") = {} => sc.st \in {"none", "done"}
    /\ Frames("join") # {} =>
           /\ sc.label = issued[Len(issued)]
           /\ JoinAt < Len(stack) => stack[JoinAt].w = (IF sc.st = "done" THEN 0 ELSE 1)
           /\ (JoinAt = Len(stack) /\ mwait = "join") => sc.st # "done"

\* C10 happens: BeginProg, the verb with the timed rest, completes
C10_Witness ==
    /\ VerbCompletes
    /\ sc.label = "BP"
    /\ val.mstate = "BP"

\* state_change is about to write its label
Publishes == alive /\ sc.st = "run"

\* C11 as the specification words it: whenever a verb's label is published,
\* the midlevel state has returned to naught since the verb before it
C11_ReturnsToNone == Publishes => val.mstate = "naught"

\* C11, amended: only start and shutdown set the midlevel state to naught.
\* A verb's label is published over the label of the verb before it; it is
\* published over naught only for the first verb after a reset (the first
\* verb of readOSCCAL and of readIDAndBandGap), and the state is naught
\* again when the session's last shutdown has ended
C11_LabelHandover ==
    /\ Publishes =>
           val.mstate = (IF Len(issued) = 1
                            \/ (script \in {<<"Program">>, <<"cleanDevice">>}
                                /\ Len(issued) = OSCCAL_ADDRESS + 2)
                         THEN "naught" ELSE issued[Len(issued) - 1])
    /\ (InStart /\ Top.pc = 3) => val.mstate = "naught"
    /\ exc = "StopSimulation" => val.mstate = "naught"

\* C11 happens: ReadProg's label is about to replace LoadConf's
C11_Witness ==
    /\ Publishes
    /\ sc.label = "RP"
    /\ val.mstate = "LC"

\* C12: for every 14-bit value, the 16 bits of the frame of
\* sendCommandAndData, taken least significant first and handed in that
\* order to the read path of sendCommandAndReadData, have 0 at positions 0
\* and 15, raise nothing, and give back the value
C12_FrameRoundTrip ==
    script = <<"loopback">> =>
        /\ Len(res) = 16 => (~res[1] /\ ~res[16])
        /\ exc = ""
        /\ mwait = "end" => output = <<arg>>
        /\ mwait # "end" => output = <<>>

\* C12 happens: the largest 14-bit value has gone round
C12_Witness ==
    /\ script = <<"loopback">>
    /\ mwait = "end"
    /\ arg = 16383
    /\ output = <<16383>>

InSendBits == stack # <<>> /\ Top.f = "sendBits"

\* sendBits between its strobe edges: l holds the values driven before the
\* last one, which is still pending or current on the data line
C13_SendBitsSteps ==
    InSendBits =>
        /\ Top.pc <= Top.w
        /\ Len(Top.l) = (IF Top.pc = 0 THEN 0 ELSE Top.pc - 1)
        /\ \A k \in 1 .. Len(Top.l) : Top.l[k] = Bit(Top.v, k - 1)
        /\ bitsValue(Top.l) = Top.v % (2 ^ Len(Top.l))
        /\ Top.pc >= 2 => (nxt.state = "Tx" /\ nxt.DATA_BIT = Top.l[Len(Top.l)])
        /\ (Top.pc >= 2 /\ mwait = "") => val.state = "Tx"
        /\ (Top.pc >= 1 /\ mwait = "") => (val.STROBE_BIT /\ val.strobe_enable)

\* every step of sendBits after its first is one write of the next bit, and
\* the step that ends it is the write of bit w-1 that completes the value
C13_SendBitsDrives ==
    (/\ InSendBits /\ Top.pc >= 1
     /\ (Len(stack') < Len(stack) \/ stack'[Len(stack)] # Top)) =>
        /\ nxt'.DATA_BIT = Bit(Top.v, Top.pc - 1)
        /\ nxt'.state = "Tx"
        /\ <<"sendBits", "DATA_BIT", Bit(Top.v, Top.pc - 1)>> \in wrote'
        /\ Returns("sendBits") <=> Top.pc = Top.w
        /\ Returns("sendBits") =>
               bitsValue(Append(Top.l, nxt'.DATA_BIT)) = Top.v
        /\ ~Returns("sendBits") => mwait' = "STROBE_BIT.posedge"

\* C13: sendBits(c) writes the data line once per strobe rising edge, as
\* many times as c has bits (6 for a command), with state Tx; the k-th value
\* written is bit k of c, least significant first, so the values written
\* decode to c
C13_SendBitsLsbFirst == []C13_SendBitsSteps /\ [][C13_SendBitsDrives]_vars

\* C13 happens: the command 100101 is about to have its sixth bit written
C13_Witness ==
    /\ script = <<"start", "sendCommand">>
    /\ arg = 37
    /\ InSendBits /\ Top.v = arg /\ Top.w = 6 /\ Top.pc = 6 /\ mwait = ""
    /\ Top.l = <<TRUE, FALSE, TRUE, FALSE, FALSE>>
    /\ val.state = "Tx"

InRest == stack # <<>> /\ Top.f = "rest"

\* a rest called with cycles < 1 is never beyond its first line
C14_RestZeroState ==
    (script = <<"start", "rest">> /\ arg < 1) =>
        /\ InRest => (Top.pc = 0 /\ Top.v = arg /\ mwait = "")
        /\ \A s \in {"DATA_BIT", "POWER_BIT", "PROGRAM_BIT", "state", "mstate"} :
               \A w \in wrote : w[2] = s => w[1] = "start"
        /\ (stack # <<>> /\ Top.f = "Caller" /\ Top.pc = 2) =>
               (nxt.strobe_enable /\ nxt.POWER_BIT /\ nxt.PROGRAM_BIT)

\* its one step ends it, wakes the caller in the same delta cycle and writes
\* nothing
C14_RestZeroStep ==
    (InRest /\ Top.pc = 0 /\ Top.v < 1 /\ stack' # stack) =>
        /\ Returns("rest")
        /\ mwait' = ""
        /\ val' = val /\ nxt' = nxt /\ wrote' = wrote

\* C14: rest(cycles) with cycles <= 0 ends without waiting for any edge and
\* leaves the current and the pending value of strobe_enable, STROBE_BIT,
\* DATA_BIT, POWER_BIT, PROGRAM_BIT, state and mstate as they are
C14_RestZeroNoOp == []C14_RestZeroState /\ [][C14_RestZeroStep]_vars

\* C14 happens: rest(0) has been called and has ended, in the delta cycle in
\* which start ended
C14_Witness ==
    /\ script = <<"start", "rest">>
    /\ arg = 0
    /\ stack # <<>> /\ Top.f = "Caller" /\ Top.pc = 2 /\ mwait = ""
    /\ nxt.strobe_enable /\ ~val.strobe_enable

\* a read sender is at its `res = self.res`
AtReadFrame ==
    /\ Running("sendCommandAndReadData") \/ Running("sendCommandAndReadByteData")
    /\ Top.pc = 2

BadFrame == res[1] \/ res[16]

\* the run ended at the assert of a read sender only on a bad frame
C15_FramingState ==
    /\ AtReadFrame => Len(res) = 16
    /\ (/\ exc = "AssertionError" /\ stack # <<>> /\ mwait = ""
        /\ Top.f \in {"sendCommandAndReadData", "sendCommandAndReadByteData"}) =>
           (Top.pc = 2 /\ BadFrame)

\* the step after readBits: a bad frame raises and appends nothing, a good
\* one appends its value; output grows in no other step
C15_FramingStep ==
    /\ (AtReadFrame /\ (exc' # exc \/ Len(stack') < Len(stack))) =>
           IF BadFrame
           THEN exc' = "AssertionError" /\ output' = output /\ stack' = stack
           ELSE /\ exc' = ""
                /\ Len(output') = Len(output) + 1
                /\ output'[Len(output')] =
                       bitsValue(SubSeq(res, 2,
                           IF Top.f = "sendCommandAndReadData" THEN 15 ELSE 9))
    /\ Len(output') > Len(output) => (AtReadFrame /\ ~BadFrame)

\* C15: in sendCommandAndReadData and sendCommandAndReadByteData a 1 in the
\* first or in the sixteenth sampled bit ends the run with AssertionError
\* and nothing is appended to output; a value is appended only when both
\* are 0
C15_FramingError == []C15_FramingState /\ [][C15_FramingStep]_vars

\* C15 happens: ReadData sampled a frame with a 1 as its stop bit
C15_Witness ==
    /\ script = <<"start", "ReadData">>
    /\ exc = "AssertionError"
    /\ res[16] /\ ~res[1]
    /\ output = <<>>

\* the script passes an operand whose declared width is not the one the
\* framing call asserts
WrongWidth ==
    \/ script = <<"start", "programCycle">> /\ argw # 14
    \/ script = <<"start", "LoadData">> /\ argw # 8
    \/ script = <<"start", "sendCommand">> /\ argw # 6

\* with a wrong width no transport generator and no state_change exists at
\* any time, and the script never ends normally
C16_WidthState ==
    /\ WrongWidth =>
           /\ Frames("sendBits") = {} /\ Frames("join") = {}
           /\ issued = <<>> /\ sc.st = "none"
           /\ mwait # "end"
           /\ exc \in {"", "AssertionError"}
           /\ \A w \in wrote : w[1] \in {"start", "clock_link", "driveClk"}
           /\ nxt.state = "REST" /\ nxt.mstate = "naught" /\ ~nxt.DATA_BIT
    /\ (~WrongWidth /\ exc = "AssertionError") =>
           Top.f \in {"sendCommandAndReadData", "sendCommandAndReadByteData"}

\* the call raises in the step that makes it, which writes nothing
C16_WidthStep ==
    (WrongWidth /\ exc = "" /\ exc' # "") =>
        /\ exc' = "AssertionError"
        /\ Top.f \in {"Caller", "programCycle"}
        /\ nxt.strobe_enable
        /\ UNCHANGED <<val, nxt, wrote, stack, sc, issued>>

\* C16: sendCommandAndData, sendCommandAndByteData and sendCommand assert the
\* width of cmd (and of data) when they are called: an operand that is too
\* wide raises AssertionError before sendBits and state_change exist, so no
\* bit is sent and DATA_BIT, STROBE_BIT, state and mstate are not written
C16_WidthAsserts == []C16_WidthState /\ [][C16_WidthStep]_vars

\* C16 happens: programCycle was handed the 16-bit word 16384
C16_Witness ==
    /\ script = <<"start", "programCycle">>
    /\ arg = 16384 /\ argw = 16
    /\ exc = "AssertionError"
    /\ nxt.strobe_enable
    /\ issued = <<>>

Session == script = <<"Program">>

\* how the session can have ended: with StopSimulation after cleanDevice and
\* shutdown, or with an error inside cleanDevice, before shutdown was called
C17_SessionOutcome ==
    Session =>
        /\ exc \in {"", "StopSimulation", "AssertionError"}
        /\ mwait # "end"
        /\ exc = "StopSimulation" =>
               /\ stack = <<[F("Program", 0, 0) EXCEPT !.pc = 2]>>
               /\ AllCached
               /\ SubSeq(issued, Len(issued) - 1, Len(issued)) = <<"EP", "ED">>
               /\ edges = 4
        /\ exc = "AssertionError" =>
               /\ stack[1].pc = 1
               /\ stack[2].f = "cleanDevice"
               /\ Top.f = "sendCommandAndReadData" /\ Top.pc = 2
               /\ BadFrame

\* C17: with the clock running, the session of main.Program always ends:
\* either cleanDevice and then shutdown end and StopSimulation is raised,
\* or one error ends the run inside cleanDevice; after the run has ended
\* nothing more happens, so shutdown does not follow an error
C17_SessionEnds ==
    /\ []C17_SessionOutcome
    /\ [][Session => exc = ""]_vars
    /\ (Session => <>(exc # ""))

\* C17 happens: the session has ended with StopSimulation
C17_Witness ==
    /\ Session
    /\ exc = "StopSimulation"
    /\ ~val.POWER_BIT /\ ~val.PROGRAM_BIT /\ ~val.strobe_enable

\* the process a generator belongs to: the generators of the call chain of
\* the top-level block run one inside the other and are one process
Process(g) ==
    IF g \in {"state_change", "clock_link", "driveClk", "interrupter"}
    THEN g ELSE "Program"

\* two generators have written different values to the next of one signal
\* in the current delta cycle
GeneratorConflict ==
    \E a \in wrote : \E b \in wrote :
        a[2] = b[2] /\ a[1] # b[1] /\ a[3] # b[3]

\* two processes have written different values to the next of one signal in
\* the current delta cycle
Conflict ==
    \E a \in wrote : \E b \in wrote :
        a[2] = b[2] /\ Process(a[1]) # Process(b[1]) /\ a[3] # b[3]

\* C18: in no delta cycle do two processes (the call chain with sendBits,
\* readBits, rest, start and shutdown; state_change; clock_link) write
\* different values to the next of the same signal; in the session of
\* main.Program not even two generators of the call chain do
C18_NoConflictingWrites ==
    /\ ~Conflict
    /\ Session => ~GeneratorConflict

\* C18 happens: in the delta cycle in which reset's start begins, start and
\* clock_link both write STROBE_BIT.next, the same value
C18_Witness ==
    /\ Session
    /\ <<"start", "STROBE_BIT", FALSE>> \in wrote
    /\ <<"clock_link", "STROBE_BIT", FALSE>> \in wrote

\* Running: start has ended and shutdown has not begun
DeviceRunning == val.POWER_BIT /\ val.PROGRAM_BIT /\ nxt.strobe_enable

\* Uninitialized: no control line is or is about to be asserted
DeviceOff ==
    /\ ~val.POWER_BIT /\ ~val.PROGRAM_BIT /\ ~val.strobe_enable
    /\ ~nxt.POWER_BIT /\ ~nxt.PROGRAM_BIT /\ ~nxt.strobe_enable

Begins(f) == Running(f) /\ Top.pc = 0

\* C19 as the specification words it: shutdown begins only on a running
\* device and start only on an uninitialized one
C19_LifecycleOnly ==
    /\ Begins("shutdown") => DeviceRunning
    /\ Begins("start") => DeviceOff

\* C19, amended: start begins only on an uninitialized device; shutdown
\* begins on a running device, or, in the reset that opens readOSCCAL and
\* readIDAndBandGap before any verb was called, on an uninitialized device,
\* which it leaves uninitialized; reset is shutdown and then start, one
\* after the other
C19_Lifecycle ==
    /\ Begins("start") => DeviceOff
    /\ Begins("shutdown") =>
           \/ DeviceRunning
           \/ DeviceOff /\ issued = <<>> /\ Frames("reset") # {}
    /\ (InShutdown /\ issued = <<>> /\ Frames("reset") # {}) => DeviceOff
    /\ \A i \in Frames("reset") :
           /\ i < Len(stack) => (stack[i].pc \in {1, 2} /\ i + 1 = Len(stack))
           /\ (i < Len(stack) /\ stack[i].pc = 1) => Top.f = "shutdown"
           /\ (i < Len(stack) /\ stack[i].pc = 2) => Top.f = "start"
    /\ Frames("start") = {} \/ Frames("shutdown") = {}

\* C19 happens: the session's first reset begins shutdown on a device that
\* was never started
C19_Witness ==
    /\ Session
    /\ Begins("shutdown")
    /\ DeviceOff
    /\ issued = <<>>

\* a verb is called after shutdown and without a start
Stall == script = <<"start", "shutdown", "EOP">>

\* sendBits is waiting for its first strobe rising edge
Suspended == InSendBits /\ Top.pc = 1 /\ mwait = "STROBE_BIT.posedge"

\* once the verb is called, its sendBits is never beyond its first yield,
\* the strobe stays low and nothing raises
C20_StallState ==
    Stall =>
        /\ exc = ""
        /\ mwait # "end"
        /\ issued \in {<<>>, <<"EOP">>}
        /\ issued # <<>> =>
               /\ \/ Top.f = "sendCommand" /\ Top.pc = 0 /\ mwait = ""
                  \/ InSendBits /\ Top.pc = 0 /\ mwait = ""
                  \/ Suspended /\ Top.l = <<>>
               /\ Len(stack) <= 4
               /\ stack[1].pc = 3
               /\ ~val.strobe_enable /\ ~nxt.strobe_enable
               /\ ~val.STROBE_BIT /\ ~nxt.STROBE_BIT
               /\ nxt.state = "REST"

\* C20: a verb called while strobe_enable is low, with nothing to set it
\* again, never ends and never raises: its sendBits stays suspended on
\* STROBE_BIT.posedge for ever while the clock goes on
C20_StallsForever ==
    /\ []C20_StallState
    /\ (Stall => <>[]Suspended)
    /\ (Stall => ([]<>val.clock /\ []<>~val.clock))

\* C20 happens: the label of the verb was published, and its sendBits is
\* still waiting for the first strobe
C20_Witness ==
    /\ Stall
    /\ Suspended
    /\ val.mstate = "EOP" /\ sc.st = "done"
    /\ val.clock

\* the rest of Tprog or Terase
TimedRest == InRest /\ (Frames("Tprog") \cup Frames("Terase")) # {}

\* the generators of BeginProg, EraseProg and EraseData
TimedVerbs == {"beginprog", "eraseprog", "erasedata"}

\* the timed rest between its clock edges: rticks is the number of clock
\* rising edges since it began
C21_RestSteps ==
    /\ TimedRest =>
           /\ rticks <= 3
           /\ \E i \in 1 .. Len(stack) : stack[i].f \in TimedVerbs /\ stack[i].pc = 2
           /\ Frames("sendBits") = {} /\ Frames("sendCommand") = {}
           /\ Top.pc = 0 => (mwait = "" /\ Top.v = 3)
           /\ Top.pc = 1 => rticks = (IF mwait = "" THEN 1 ELSE 0)
           /\ Top.pc = 2 => (rticks = 1 /\ Top.v = 2)
           /\ Top.pc = 3 => rticks = (3 - Top.v) + (IF mwait = "" THEN 1 ELSE 0)
           /\ Top.pc >= 1 => (~nxt.strobe_enable /\ ~Posedge("STROBE_BIT"))
           /\ (Top.pc >= 1 /\ rticks >= 1) => (~val.strobe_enable /\ ~nxt.STROBE_BIT)
           /\ Top.pc >= 2 => (nxt.state = "REST" /\ ~nxt.DATA_BIT)
           /\ Top.pc >= 3 => (val.state = "REST" /\ ~val.DATA_BIT /\ ~val.STROBE_BIT)
    /\ \A i \in 1 .. Len(stack) :
           (stack[i].f \in TimedVerbs /\ stack[i].pc = 1 /\ i < Len(stack)) =>
               stack[i + 1].f = "sendCommand"

\* the timed rest begins in the delta cycle in which sendBits wrote the
\* last bit of the command, and ends at its third clock rising edge
C21_RestSpan ==
    /\ (TimedRest /\ Top.pc = 0 /\ stack'[Len(stack)] # Top) =>
           \E w \in wrote : w[1] = "sendBits" /\ w[2] = "DATA_BIT"
    /\ (TimedRest /\ Returns("rest")) =>
           /\ rticks = 3
           /\ val.clock
           /\ nxt'.strobe_enable /\ ~val.strobe_enable

\* C21: BeginProg, EraseProg and EraseData send their command and only then
\* run rest(3), which spans exactly 3 clock rising edges; in that time
\* strobe_enable is low and STROBE_BIT does not rise, and from the first of
\* the edges DATA_BIT is low and state is REST
C21_TimedRest == []C21_RestSteps /\ [][C21_RestSpan]_vars

\* C21 happens: the rest of EraseData is woken by its third edge
C21_Witness ==
    /\ TimedRest
    /\ sc.label = "ED"
    /\ Top.pc = 3 /\ Top.v = 1 /\ mwait = ""
    /\ rticks = 3

\* rest(cycles) called with cycles >= 1 beside a generator that may change
\* the lowlevel state
RestCall == script = <<"start", "rest">> /\ arg >= 1 /\ InRest

\* rest takes a step of its own
RestStep == InRest /\ (Len(stack') < Len(stack) \/ stack'[Len(stack)] # Top)

\* C22 as the specification words it: whenever the other generator has changed
\* the state while rest(cycles), cycles >= 2, was waiting, rest ends having
\* consumed fewer than cycles clock rising edges
C22_AlwaysFewer ==
    [][(RestCall /\ arg >= 2 /\ intr = "done" /\ Returns("rest"))
           => rticks < arg]_vars

\* rest between its clock edges when the state may be changed under it
C22_RestSteps ==
    RestCall =>
        /\ rticks <= arg
        /\ Top.pc = 1 => rticks = (IF mwait = "" THEN 1 ELSE 0)
        /\ Top.pc = 2 => (rticks = 1 /\ Top.v = arg - 1)
        /\ Top.pc = 3 => rticks = (arg - Top.v) + (IF mwait = "" THEN 1 ELSE 0)
        /\ (Top.pc >= 2 /\ val.state # "REST") => intr = "done"
        /\ Top.pc >= 1 => ~nxt.strobe_enable

\* what rest does at each check, and how it ends
C22_RestChecks ==
    /\ (RestCall /\ RestStep /\ Top.pc >= 2 /\ val.state # "REST")
           => (Returns("rest") /\ rticks <= arg)
    /\ (RestCall /\ RestStep /\ Top.pc >= 2 /\ val.state = "REST"
            /\ rticks < arg)
           => (~Returns("rest") /\ mwait' = "clock.posedge")
    /\ (RestCall /\ Returns("rest"))
           => /\ nxt'.strobe_enable /\ ~nxt.strobe_enable
              /\ rticks >= 1 /\ rticks <= arg
              /\ rticks < arg => (val.state # "REST" /\ intr = "done")
              /\ val.state = "REST" => rticks = arg

\* C22 (amended): rest(cycles) with cycles >= 2 can be interrupted.  At the
\* check after the falling edge and at the check after each later rising edge
\* it ends as soon as the state is not Rest, and otherwise waits for the next
\* rising edge until cycles edges have come; it consumes fewer than cycles
\* edges exactly when a check before the last one sees the changed state (a
\* change made before rest's first edge is overwritten by rest, and one seen
\* only at the last check leaves the count at cycles); however it ends, it
\* sets strobe-enable again as it ends.
C22_Interruptible == []C22_RestSteps /\ [][C22_RestChecks]_vars

\* rest(3) is about to end at the check after the falling edge, one rising
\* edge after it was called, because the state has been changed to Tx
C22_Witness ==
    /\ RestCall /\ arg = 3
    /\ Top.pc = 2 /\ mwait = "" /\ rticks = 1
    /\ val.state = "Tx" /\ intr = "done"

\* the state was changed while rest(2) waited for its last edge: rest ends at
\* that edge with both edges consumed
C22_LateChange ==
    /\ RestCall /\ arg = 2
    /\ Top.pc = 3 /\ mwait = "" /\ rticks = 2
    /\ val.state = "Tx" /\ intr = "done"

\* the state was changed before rest's first edge and rest has set it back
C22_Overwritten ==
    /\ RestCall /\ arg = 2
    /\ Top.pc = 3 /\ mwait = "" /\ rticks = 2
    /\ val.state = "REST" /\ intr = "done"


InReadBits == stack # <<>> /\ Top.f = "readBits"

\* readBits takes a step of its own
ReadStep == InReadBits /\ (Len(stack') < Len(stack) \/ stack'[Len(stack)] # Top)

\* C23 as the specification words it: readBits suspends on strobe falling
\* edges only and has one sample for every strobe falling edge since it was
\* called
C23_OnlyFallingEdges ==
    InReadBits =>
        /\ mwait \in {"", "STROBE_BIT.negedge"}
        /\ mwait = "STROBE_BIT.negedge" => Len(Top.l) = falls

\* readBits between its strobe edges: falls is the number of strobe falling
\* edges since the call, l the samples taken
C23_ReadSteps ==
    InReadBits =>
        /\ Top.pc = 0 => (mwait = "" /\ val.STROBE_BIT /\ Top.l = <<>>)
        /\ Top.pc = 1 => /\ Top.l = <<>>
                         /\ mwait \in {"", "STROBE_BIT.posedge"}
                         /\ mwait = "" => (falls = 1 /\ val.STROBE_BIT)
                         /\ mwait # "" => falls <= 1
        /\ Top.pc = 2 => /\ mwait \in {"", "STROBE_BIT.negedge"}
                         /\ Len(Top.l) < Top.v
                         /\ nxt.state = "Rx"
                         /\ falls = Len(Top.l) + (IF mwait = "" THEN 2 ELSE 1)
        /\ Top.pc <= 2

\* what readBits does when it is resumed
C23_ReadActs ==
    /\ (ReadStep /\ Top.pc = 0) => (mwait' = "STROBE_BIT.posedge" /\ nxt' = nxt)
    /\ (ReadStep /\ Top.pc = 1)
           => (nxt'.state = "Rx" /\ mwait' = "STROBE_BIT.negedge"
               /\ nxt'.DATA_BIT = nxt.DATA_BIT)
    /\ (ReadStep /\ Top.pc = 2)
           => /\ ~val.STROBE_BIT
              /\ nxt'.DATA_BIT = read(Len(Top.l))
              /\ <<"readBits", "DATA_BIT", read(Len(Top.l))>> \in wrote'
              /\ IF Returns("readBits")
                 THEN /\ res' = Append(Top.l, read(Len(Top.l)))
                      /\ Len(res') = Top.v
                      /\ falls = Top.v + 1
                 ELSE /\ stack'[Len(stack)].l = Append(Top.l, read(Len(Top.l)))
                      /\ mwait' = "STROBE_BIT.negedge"
                      /\ res' = res
    /\ Returns("readBits") => Top.pc = 2

\* C23 (amended): readBits(n) first suspends on a strobe rising edge and sets
\* TransportState=Rx when that edge comes; from then on it suspends on strobe
\* falling edges only.  Called while the strobe is high (as it is after
\* sendBits), it lets the first strobe falling edge after the call pass
\* unsampled, takes its first sample at the second and completes at the
\* (n+1)-th; it returns the n samples oldest-first and writes each sampled
\* value back onto the data line.
C23_ReadBits == []C23_ReadSteps /\ [][C23_ReadActs]_vars

\* readBits(16) is about to take its last sample, at the 17th strobe falling
\* edge since it was called
C23_Witness ==
    /\ InReadBits /\ Top.pc = 2 /\ mwait = ""
    /\ Top.v = 16 /\ Len(Top.l) = 15 /\ falls = 17


\* the command table as the specification lists it, every X read as 0
CodeOf ==
    [LC |-> 0, LP |-> 2, Incr |-> 6, EOP |-> 10, LD |-> 3,
     RP |-> 4, RD |-> 5, BP |-> 8, EP |-> 9, ED |-> 11]

\* the eleven constants of the command table
TableCodes ==
    <<LoadConfiguration, LoadDataforProgramMemory, IncrementAddress,
      EndProgramming, LoadDataforDataMemory, ReadDatafromProgramMemory,
      ReadDatafromDataMemory, BeginProgrammingInternallyTimed,
      BeginProgrammingExternallyTimed, BulkEraseProgramMemory,
      BulkEraseDataMemory>>

\* a verb is in flight: its join is in the call chain and sc holds its label
VerbInFlight == Frames("join") # {} /\ sc.label \in DOMAIN CodeOf

\* C24: the first sendBits of every verb is the 6-bit one, and the value it
\* sends (least significant bit first) is the code the command table has for
\* the verb with every X as 0: LoadConf 000000, LoadProg 000010, IncrAddr
\* 000110, EOP 001010, LoadData 000011, ReadProg 000100, ReadData 000101,
\* BeginProg 001000, EraseProg 001001, EraseData 001011; the eleven codes of
\* the table are pairwise distinct
C24_VerbCodes ==
    /\ (VerbInFlight /\ InSendBits) =>
           /\ stack[Len(stack) - 1].pc \in {1, 2}
           /\ Top.w = 6 <=> stack[Len(stack) - 1].pc = 1
           /\ Top.w = 6 =>
                  /\ Top.v = CodeOf[sc.label]
                  /\ \A k \in 1 .. Len(Top.l) :
                         Top.l[k] = Bit(CodeOf[sc.label], k - 1)
    /\ \A i \in 1 .. 11 : TableCodes[i].w = 6 /\ TableCodes[i].v \in 0 .. 63
    /\ \A i \in 1 .. 11 : \A j \in 1 .. 11 :
           i # j => TableCodes[i].v # TableCodes[j].v
    /\ <<LoadConfiguration.v, LoadDataforProgramMemory.v, IncrementAddress.v,
         EndProgramming.v, LoadDataforDataMemory.v,
         ReadDatafromProgramMemory.v, ReadDatafromDataMemory.v,
         BeginProgrammingInternallyTimed.v, BulkEraseProgramMemory.v,
         BulkEraseDataMemory.v>> = <<0, 2, 6, 10, 3, 4, 5, 8, 9, 11>>

\* EraseData is about to write the sixth bit of its code 001011
C24_Witness ==
    /\ VerbInFlight /\ sc.label = "ED"
    /\ InSendBits /\ Top.w = 6 /\ Top.pc = 6 /\ mwait = ""
    /\ Top.l = <<TRUE, TRUE, FALSE, TRUE, FALSE>>

\* every verb gets to send its code
C24_Verb_LC == VerbInFlight /\ InSendBits /\ Top.pc = 6 /\ Top.w = 6 /\ sc.label = "LC"
C24_Verb_LP == VerbInFlight /\ InSendBits /\ Top.pc = 6 /\ Top.w = 6 /\ sc.label = "LP"
C24_Verb_Incr == VerbInFlight /\ InSendBits /\ Top.pc = 6 /\ Top.w = 6 /\ sc.label = "Incr"
C24_Verb_EOP == VerbInFlight /\ InSendBits /\ Top.pc = 6 /\ Top.w = 6 /\ sc.label = "EOP"
C24_Verb_LD == VerbInFlight /\ InSendBits /\ Top.pc = 6 /\ Top.w = 6 /\ sc.label = "LD"
C24_Verb_RP == VerbInFlight /\ InSendBits /\ Top.pc = 6 /\ Top.w = 6 /\ sc.label = "RP"
C24_Verb_RD == VerbInFlight /\ InSendBits /\ Top.pc = 6 /\ Top.w = 6 /\ sc.label = "RD"
C24_Verb_BP == VerbInFlight /\ InSendBits /\ Top.pc = 6 /\ Top.w = 6 /\ sc.label = "BP"
C24_Verb_EP == VerbInFlight /\ InSendBits /\ Top.pc = 6 /\ Top.w = 6 /\ sc.label = "EP"


\* C25: the strobe line is high, or about to be, only while power and
\* program-mode are both asserted and neither is about to be cleared: no
\* strobe pulse reaches the chip before start has raised both lines or after
\* shutdown has cleared one of them; this holds in the session of main and
\* in every other sequence of calls
C25_StrobeOnlyWhenPowered ==
    /\ val.STROBE_BIT =>
           (val.POWER_BIT /\ val.PROGRAM_BIT /\ nxt.POWER_BIT /\ nxt.PROGRAM_BIT)
    /\ nxt.STROBE_BIT =>
           (val.POWER_BIT /\ val.PROGRAM_BIT /\ nxt.POWER_BIT /\ nxt.PROGRAM_BIT)
    /\ val.strobe_enable => (val.POWER_BIT /\ val.PROGRAM_BIT)

\* the last strobe pulse of the session: the strobe is high after the first
\* clock edge of shutdown, strobe_enable has just been cleared, and both
\* lines are still asserted
C25_Witness ==
    /\ Session /\ InShutdown /\ edges = 1
    /\ val.STROBE_BIT /\ ~val.strobe_enable
    /\ val.POWER_BIT /\ val.PROGRAM_BIT


\* the first command bit of the verb in flight has been written to the data
\* line, or is being written in this delta cycle
FirstBitOut ==
    \E i \in Frames("sendBits") :
        /\ stack[i].w = 6
        /\ stack[i].pc >= 2 \/ (stack[i].pc = 1 /\ mwait = "")

\* nothing of the verb in flight has gone out yet
NothingSent ==
    /\ Frames("readBits") = {} /\ Frames("rest") = {}
    /\ \A i \in Frames("sendBits") :
           stack[i].w = 6 /\ stack[i].l = <<>> /\ stack[i].pc <= 1

\* C26: for every verb, in the session and in every other sequence of calls,
\* state_change ends at the first clock rising edge after the verb was
\* called, while the transaction still waits for its first strobe rising
\* edge, so it always ends first; the label it writes is current from the
\* delta cycle in which sendBits writes the first command bit, one delta
\* cycle before that bit is visible on the data line, and stays current for
\* the rest of the verb, whatever was called before the verb
C26_LabelBeforeBits ==
    VerbInFlight =>
        /\ sc.st # "done" => (stack[JoinAt].w = 1 /\ NothingSent /\ ~FirstBitOut)
        /\ sc.st = "done" => nxt.mstate = sc.label
        /\ FirstBitOut => (sc.st = "done" /\ val.mstate = sc.label)
        /\ stack[JoinAt].w = 0 => sc.st = "done"

\* the verb before the one in flight
Previous == IF Len(issued) >= 2 THEN issued[Len(issued) - 1] ELSE "None"

\* sendBits is about to write the first command bit of the verb in flight
AtFirstBit ==
    VerbInFlight /\ InSendBits /\ Top.w = 6 /\ Top.pc = 1 /\ mwait = ""

\* after a timed rest: EraseData, called as EraseProg's Terase ended, is about
\* to write its first bit and its label is current
C26_Witness ==
    /\ Session /\ AtFirstBit
    /\ sc.label = "ED" /\ Previous = "EP"
    /\ val.mstate = "ED" /\ sc.st = "done"

\* after start, after a send and after a read
C26_AfterStart ==
    Session /\ AtFirstBit /\ Previous = "None" /\ val.mstate = sc.label
C26_AfterSend ==
    Session /\ AtFirstBit /\ Previous = "LC" /\ val.mstate = sc.label
C26_AfterRead ==
    Session /\ AtFirstBit /\ Previous = "RP" /\ val.mstate = sc.label


\* the errors that end the run, other than StopSimulation
Fatal == {"FaultyWriteError", "AssertionError"} \cup AwErrors

\* the three errors of a sequence: the faulty write, the bad frame of a read,
\* the missing attribute of bulkEraseDevice
SequenceError ==
    \/ exc = "FaultyWriteError"
    \/ /\ exc = "AssertionError" /\ stack # <<>>
       /\ Top.f \in {"sendCommandAndReadData", "sendCommandAndReadByteData"}
    \/ exc \in AwErrors

ControlLines == {"POWER_BIT", "PROGRAM_BIT", "strobe_enable"}

\* at a fatal error no shutdown is in the call chain; at a sequence error no
\* write to a control line is pending, and after a faulty write or a bad
\* frame the device is running
C27_AtError ==
    /\ exc \in Fatal => Frames("shutdown") = {}
    /\ SequenceError =>
           /\ \A s \in ControlLines : nxt[s] = val[s]
           /\ \A w \in wrote : w[2] \notin ControlLines
    /\ (SequenceError /\ exc \notin AwErrors) => DeviceRunning

\* the step that raises writes no signal and calls nothing, and no step
\* follows it
C27_Aborts ==
    /\ exc \notin Fatal
    /\ exc' \in Fatal => (val' = val /\ nxt' = nxt /\ stack' = stack
                          /\ wrote' = wrote)

\* C27: when a sequence ends with FaultyWriteError, with the assertion on a
\* read frame or with bulkEraseDevice's 'aw' exception, the run is over:
\* shutdown is not called, no generator runs again and no signal is written
\* or updated, so power, program-mode and strobe-enable stay as they were at
\* the error, and a device that was running stays powered
C27_NoCleanup == []C27_AtError /\ [][C27_Aborts]_vars

\* the faulty write has ended the run with the device running
C27_Witness ==
    /\ exc = "FaultyWriteError"
    /\ val.POWER_BIT /\ val.PROGRAM_BIT /\ val.strobe_enable

\* the bad frame and the missing attribute, each with the device running
C27_FramingRunning ==
    /\ exc = "AssertionError" /\ SequenceError
    /\ val.POWER_BIT /\ val.PROGRAM_BIT /\ val.strobe_enable
C27_AwRunning ==
    /\ exc \in AwErrors
    /\ val.POWER_BIT /\ val.PROGRAM_BIT /\ val.strobe_enable


\* the session has completed: Program has raised StopSimulation after
\* cleanDevice and shutdown
Completed == Session /\ exc = "StopSimulation"

Lines == {"STROBE_BIT", "DATA_BIT", "POWER_BIT", "PROGRAM_BIT", "strobe_enable"}

\* C28: when the session has completed, the strobe, data, power, program-mode
\* and strobe-enable lines are all low and no write to raise one of them is
\* pending, the lowlevel state is REST and the midlevel state is naught;
\* StopSimulation is raised in no other way than by the completed session
C28_FinalState ==
    /\ Completed =>
           /\ \A s \in Lines : ~val[s] /\ ~nxt[s]
           /\ val.state = "REST" /\ nxt.state = "REST"
           /\ val.mstate = "naught" /\ nxt.mstate = "naught"
           /\ AllCached
           /\ stack # <<>> /\ Top.f = "Program"
    /\ exc = "StopSimulation" => Session

\* the session has completed, four clock edges into shutdown
C28_Witness == Completed /\ edges = 4 /\ val.clock


====
